---- MODULE Spec2Model ----
(***************************************************************************)
(* Resource-table subsystem of arc-reader: the loader                      *)
(* (ResourceTables::from_bytes), the re-serializer                         *)
(* (ResourceTables::into_bytes) with its reservation state (SerState), the *)
(* per-entity reserve / reinternalize routines and the packed hash types.  *)
(*                                                                         *)
(* Representation.  A u32 that can have its top bit set (the len_and_data  *)
(* word of a HashWithData, whose upper 24 bits carry an index) is kept as  *)
(* its four little-endian bytes <<b0, b1, b2, b3>>, exactly as it lies in  *)
(* the buffer; every other u32 is an integer.  Buffers are byte sequences. *)
(* A panic is the out-of-band value PANIC carried through the rewrite, or  *)
(* ok = FALSE in a SerState; the action that meets one moves to "abort".   *)
(***************************************************************************)
EXTENDS Integers, Sequences, FiniteSets, TLC

VARIABLES
    raw_data,     \* ResourceTables.raw_data: the loaded buffer (bytes)
    tables,       \* the tables from_bytes sliced out of raw_data
    cache,        \* into_bytes: SerState
    info_groups,  \* into_bytes: Vec of subpackage group indices
    info_start,   \* into_bytes: Option<u32>, NONE or the group index
    buffer,       \* into_bytes: the output Vec<u8>
    emitted,      \* history: the records each write_table / write_lookup wrote
    reloaded,     \* from_bytes applied to the finished output
    pc,           \* position inside into_bytes
    panicked_at,  \* history: the step that panicked, "" while none has
    hwd,          \* HashWithData under test (hash specification)
    hop,          \* last HashWithData operation and its arguments
    rcall         \* last checked_range call: its arguments and what came of it

vars == <<raw_data, tables, cache, info_groups, info_start, buffer, emitted,
          reloaded, pc, panicked_at, hwd, hop, rcall>>

-----------------------------------------------------------------------------
(* Bounds of the model *)

\* unreferenced (versioned) records in front of each compacted table: 0..MaxPad
MaxPad == 1
\* HashWithData payloads tried by the hash specification: 0..MaxData and a few
\* fixed 24-bit patterns
MaxData == 3
MaxBuckets == 4

-----------------------------------------------------------------------------
(* Program constants *)

INVALID_INDEX == 16777215
LOCALE_COUNT == 14
REGION_COUNT == 5

\* out-of-band values: a panic carried through a rewrite; Option::None
PANIC == 0 - 1
NONE == 0 - 2

\* a len_and_data word whose computation panicked
PanicWord == <<PANIC, PANIC, PANIC, PANIC>>

B8 == 2^8
B16 == 2^16
B24 == 2^24

-----------------------------------------------------------------------------
(* Little-endian bytes *)

Byte(v, k) ==
    CASE k = 0 -> v % B8
      [] k = 1 -> (v \div B8) % B8
      [] k = 2 -> (v \div B16) % B8
      [] k = 3 -> (v \div B24) % B8

\* the four bytes of a u32 below 2^31
LE32(v) == <<Byte(v, 0), Byte(v, 1), Byte(v, 2), Byte(v, 3)>>

\* the u32 at byte offset off (0-based) of b
U32At(b, off) ==
    b[off + 1] + B8 * b[off + 2] + B16 * b[off + 3] + B24 * b[off + 4]

U8At(b, off) == b[off + 1]

Slice(b, off, n) == SubSeq(b, off + 1, off + n)

RECURSIVE Concat(_)
Concat(ss) == IF ss = <<>> THEN <<>> ELSE Head(ss) \o Concat(Tail(ss))

SeqRange(s) == {s[k] : k \in 1..Len(s)}

-----------------------------------------------------------------------------
(* hash.rs *)

\* Hash40(u64) = (len << 32) | crc, kept as the pair it is built from
Hash40(crc, len) == [crc |-> crc, len |-> len]

\* (str_len as u32) | (data << 8)
HashWithData_new(hash, data) ==
    [crc |-> hash.crc,
     len_and_data |-> <<hash.len, Byte(data, 0), Byte(data, 1), Byte(data, 2)>>]

\* len_and_data & 0xFF
HashWithData_length(h) == h.len_and_data[1]

HashWithData_hash40(h) == Hash40(h.crc, HashWithData_length(h))

\* (len_and_data & 0xFFFF_FF00) | str_len ; crc = hash.crc()
HashWithData_set_hash40(h, hash) ==
    [crc |-> hash.crc,
     len_and_data |-> <<hash.len, h.len_and_data[2], h.len_and_data[3],
                        h.len_and_data[4]>>]

\* (len_and_data & 0xFFFF_FF00) >> 8
HashWithData_data(h) ==
    IF h.len_and_data = PanicWord THEN PANIC
    ELSE h.len_and_data[2] + B8 * h.len_and_data[3] + B16 * h.len_and_data[4]

\* (len_and_data & 0xFF) | data << 24 : the shift binds tighter than the or,
\* so the low byte of data lands in the top byte of the word
HashWithData_set_data(h, data) ==
    IF data = PANIC THEN [h EXCEPT !.len_and_data = PanicWord]
    ELSE [h EXCEPT !.len_and_data = <<h.len_and_data[1], 0, 0, Byte(data, 0)>>]

\* Hash { crc: u32, len: u8 }
Hash(crc, len) == [crc |-> crc, len |-> len]

-----------------------------------------------------------------------------
(* index.rs *)

\* start..start+count when start + count < INVALID_INDEX, else 0..0
checked_range(start, count) ==
    IF start + count >= INVALID_INDEX THEN <<>>
    ELSE [k \in 1..count |-> start + k - 1]

\* a u32 as <<high 16 bits, low 16 bits>>, for values the integers of the
\* checker cannot hold
U32(hi, lo) == <<hi, lo>>

U32_lt(a, b) == a[1] < b[1] \/ (a[1] = b[1] /\ a[2] < b[2])

INVALID_U32 == U32(255, 65535)

ZERO_U32 == U32(0, 0)

\* checked_range over the whole of u32: the outcomes a build can produce.
\* start + count is a plain u32 addition; when the sum does not fit 32 bits a
\* build with overflow checks panics in it and a build without them goes on
\* with the wrapped sum, in the comparison and as the end of the range
checked_range_u32(start, count) ==
    LET lo == start[2] + count[2]
        hi == start[1] + count[1] + (lo \div B16)
        sum == U32(hi % B16, lo % B16)
        range == IF ~U32_lt(sum, INVALID_U32)
                 THEN [kind |-> "range", start |-> ZERO_U32, end |-> ZERO_U32]
                 ELSE [kind |-> "range", start |-> start, end |-> sum]
    IN  IF hi >= B16
        THEN {[kind |-> "panic", start |-> ZERO_U32, end |-> ZERO_U32], range}
        ELSE {range}

-----------------------------------------------------------------------------
(* archive/resource/serialization.rs *)

Types == {"FilePackage", "FilePackageChild", "FileGroup", "FileInfo",
          "FileDesc", "FileData", "FilePath", "FileEntity", "StreamFolder",
          "StreamPath", "StreamDesc", "StreamData"}

\* SerState::new : no type has a set yet (an absent set iterates as empty)
SerState_new == [m |-> [t \in Types |-> <<>>], ok |-> TRUE]

\* IndexSet::get_index_of
IndexOf(s, v) == (CHOOSE k \in 1..Len(s) : s[k] = v) - 1

Reserved(st, T, index) == index \in SeqRange(st.m[T])

\* a get that answers 0 for an index that is not reserved
SerState_get_or_zero(st, T, index) ==
    IF index = INVALID_INDEX THEN index
    ELSE IF ~Reserved(st, T, index) THEN 0
    ELSE IndexOf(st.m[T], index)

\* SerState::get : INVALID_INDEX passes through, an unreserved index panics
SerState_get(st, T, index) ==
    IF index = INVALID_INDEX THEN index
    ELSE IF ~Reserved(st, T, index) THEN PANIC
    ELSE IndexOf(st.m[T], index)

\* a reserve that puts the index in front of the earlier ones
SerState_reserve_front(st, T, index) ==
    IF ~st.ok \/ index = INVALID_INDEX THEN st
    ELSE IF Reserved(st, T, index) THEN [st EXCEPT !.ok = FALSE]
    ELSE [st EXCEPT !.m[T] = <<index>> \o @]

\* SerState::reserve : panics when insert_full finds the index present
SerState_reserve(st, T, index) ==
    IF ~st.ok \/ index = INVALID_INDEX THEN st
    ELSE IF Reserved(st, T, index) THEN [st EXCEPT !.ok = FALSE]
    ELSE [st EXCEPT !.m[T] = Append(@, index)]

\* SerState::try_reserve : the returned bool is TryReserveInserts
TryReserveInserts(st, T, index) ==
    index # INVALID_INDEX /\ ~Reserved(st, T, index)

\* a try_reserve that puts a new index in front of the earlier ones
SerState_try_reserve_front(st, T, index) ==
    IF ~st.ok \/ ~TryReserveInserts(st, T, index) THEN st
    ELSE [st EXCEPT !.m[T] = <<index>> \o @]

SerState_try_reserve(st, T, index) ==
    IF ~st.ok \/ ~TryReserveInserts(st, T, index) THEN st
    ELSE [st EXCEPT !.m[T] = Append(@, index)]

RECURSIVE ReserveEach(_, _, _)
ReserveEach(st, T, idxs) ==
    IF idxs = <<>> THEN st
    ELSE ReserveEach(SerState_reserve(st, T, Head(idxs)), T, Tail(idxs))

RECURSIVE TryReserveEach(_, _, _)
TryReserveEach(st, T, idxs) ==
    IF idxs = <<>> THEN st
    ELSE TryReserveEach(SerState_try_reserve(st, T, Head(idxs)), T, Tail(idxs))

\* reserve_range passing over the indices that are reserved already
SerState_reserve_range_skipping(st, T, index, count) ==
    IF ~st.ok THEN st
    ELSE IF index = INVALID_INDEX
         THEN IF count # 0 THEN [st EXCEPT !.ok = FALSE] ELSE st
    ELSE TryReserveEach(st, T, checked_range(index, count))

\* SerState::reserve_range
SerState_reserve_range(st, T, index, count) ==
    IF ~st.ok THEN st
    ELSE IF index = INVALID_INDEX
         THEN IF count # 0 THEN [st EXCEPT !.ok = FALSE] ELSE st
    ELSE ReserveEach(st, T, checked_range(index, count))

\* what SerState::reserve returns: INVALID_INDEX as it came, else the position
\* insert_full gave the index; a panic returns nothing
SerState_reserve_returns(st, T, index) ==
    IF index = INVALID_INDEX THEN index
    ELSE IF Reserved(st, T, index) THEN PANIC
    ELSE Len(st.m[T])

\* what SerState::reserve_range returns: start_index.unwrap_or(0)
SerState_reserve_range_returns(st, T, index, count) ==
    IF index = INVALID_INDEX THEN IF count # 0 THEN PANIC ELSE index
    ELSE IF ~ReserveEach(st, T, checked_range(index, count)).ok THEN PANIC
    ELSE IF checked_range(index, count) = <<>> THEN 0
    ELSE Len(st.m[T])

\* SerState::iter
SerState_iter(st, T) == st.m[T]

-----------------------------------------------------------------------------
(* archive/data : the record types, their ranges, reserve and reinternalize *)

HasFlag(flags, bit) == (flags \div bit) % 2 = 1

\* FilePackageFlags
PKG_IS_LOCALIZED == 2^24
PKG_IS_REGIONAL == 2^25
PKG_HAS_SUB_PACKAGE == 2^26
PKG_SYM_LINK_IS_REGIONAL == 2^27
PKG_IS_SYM_LINK == 2^28

\* FileInfoFlags
INFO_IS_REGULAR_FILE == 2^4
INFO_IS_LOCALIZED == 2^15
INFO_IS_REGIONAL == 2^16

\* StreamFileFlags
STREAM_IS_LOCALIZED == 2^0
STREAM_IS_REGIONAL == 2^1

(* file_desc.rs *)

\* the conversion with an unknown tag read as Unowned
LoadMethod_from_lenient(word) ==
    LET kind == word \div B24
        payload == word % B24
    IN  CASE kind = 1 -> [tag |-> "Owned", index |-> payload]
          [] kind = 3 -> [tag |-> "PackageSkip", index |-> payload]
          [] kind = 5 -> [tag |-> "Unknown", index |-> 0]
          [] kind = 9 -> [tag |-> "SharedButOwned", index |-> payload]
          [] kind = 16 -> [tag |-> "UnsupprotedRegionLocale", index |-> payload]
          [] OTHER -> [tag |-> "Unowned", index |-> payload]

\* From<FileLoadMethod> for LoadMethod : kind = value >> 24, payload = low 24 bits
LoadMethod_from(word) ==
    LET kind == word \div B24
        payload == word % B24
    IN  CASE kind = 0 -> [tag |-> "Unowned", index |-> payload]
          [] kind = 1 -> [tag |-> "Owned", index |-> payload]
          [] kind = 3 -> [tag |-> "PackageSkip", index |-> payload]
          [] kind = 5 -> [tag |-> "Unknown", index |-> 0]
          [] kind = 9 -> [tag |-> "SharedButOwned", index |-> payload]
          [] kind = 16 -> [tag |-> "UnsupprotedRegionLocale", index |-> payload]
          [] OTHER -> [tag |-> "panic", index |-> 0]

\* From<LoadMethod> for FileLoadMethod
FileLoadMethod_from(lm) ==
    IF lm.tag = "panic" \/ lm.index = PANIC THEN PANIC
    ELSE CASE lm.tag = "Unowned" -> lm.index
           [] lm.tag = "Owned" -> 1 * B24 + lm.index
           [] lm.tag = "PackageSkip" -> 3 * B24 + lm.index
           [] lm.tag = "Unknown" -> 5 * B24
           [] lm.tag = "SharedButOwned" -> 9 * B24 + lm.index
           [] lm.tag = "UnsupprotedRegionLocale" -> 16 * B24 + lm.index

\* FileDesc::reserve
FileDesc_reserve(d, st) == SerState_reserve(st, "FileData", d.file_data)

\* the match with the Owned arm keeping its payload
LoadMethod_rewrite_keep_owned(lm, st) ==
    CASE lm.tag = "Unowned" ->
            [lm EXCEPT !.index = SerState_get(st, "FileEntity", lm.index)]
      [] lm.tag = "PackageSkip" ->
            [lm EXCEPT !.index = SerState_get(st, "FileInfo", lm.index)]
      [] lm.tag = "SharedButOwned" ->
            [lm EXCEPT !.index = SerState_get(st, "FileEntity", lm.index)]
      [] OTHER -> lm

\* the match in FileDesc::reinternalize
LoadMethod_rewrite(lm, st) ==
    CASE lm.tag = "Unowned" ->
            [lm EXCEPT !.index = SerState_get(st, "FileEntity", lm.index)]
      [] lm.tag = "Owned" -> [lm EXCEPT !.index = INVALID_INDEX]
      [] lm.tag = "PackageSkip" ->
            [lm EXCEPT !.index = SerState_get(st, "FileInfo", lm.index)]
      [] lm.tag = "SharedButOwned" ->
            [lm EXCEPT !.index = SerState_get(st, "FileEntity", lm.index)]
      [] OTHER -> lm

\* FileDesc::reinternalize
FileDesc_reinternalize(d, st) ==
    [group |-> SerState_get(st, "FileGroup", d.group),
     file_data |-> SerState_get(st, "FileData", d.file_data),
     load_method |->
        FileLoadMethod_from(LoadMethod_rewrite(LoadMethod_from(d.load_method), st))]

FileDesc_panicked(d) ==
    d.group = PANIC \/ d.file_data = PANIC \/ d.load_method = PANIC

(* file_path.rs *)

\* FilePath::reinternalize
FilePath_reinternalize(p, st) ==
    [p EXCEPT
       !.path_and_entity =
           HashWithData_set_data(@,
               SerState_get(st, "FileEntity", HashWithData_data(@))),
       !.ext_and_version = HashWithData_set_data(@, INVALID_INDEX)]

FilePath_panicked(p) == p.path_and_entity.len_and_data = PanicWord

(* file_entity.rs *)

\* reinternalize that leaves a group owner as it was
FileEntity_reinternalize_group_kept(e, st, package_len) ==
    [package_or_group |->
        IF e.package_or_group >= package_len
        THEN e.package_or_group
        ELSE SerState_get(st, "FilePackage", e.package_or_group),
     info |-> SerState_get(st, "FileInfo", e.info)]

\* FileEntity::reinternalize
FileEntity_reinternalize(e, st, package_len) ==
    [package_or_group |->
        IF e.package_or_group >= package_len
        THEN SerState_get(st, "FileGroup", e.package_or_group)
        ELSE SerState_get(st, "FilePackage", e.package_or_group),
     info |-> SerState_get(st, "FileInfo", e.info)]

FileEntity_panicked(e) == e.package_or_group = PANIC \/ e.info = PANIC

(* file_info.rs *)

\* descriptor_range without the invalid descriptor that closes a regional run
FileInfo_descriptor_range_region_short(i) ==
    checked_range(i.desc,
        IF HasFlag(i.flags, INFO_IS_LOCALIZED) THEN LOCALE_COUNT + 1
        ELSE IF HasFlag(i.flags, INFO_IS_REGIONAL) THEN REGION_COUNT
        ELSE 1)

\* FileInfo::descriptor_range
FileInfo_descriptor_range(i) ==
    checked_range(i.desc,
        IF HasFlag(i.flags, INFO_IS_LOCALIZED) THEN LOCALE_COUNT + 1
        ELSE IF HasFlag(i.flags, INFO_IS_REGIONAL) THEN REGION_COUNT + 1
        ELSE 1)

\* FileInfo::reserve
FileInfo_reserve(i, st) ==
    SerState_reserve_range(st, "FileDesc", i.desc,
                           Len(FileInfo_descriptor_range(i)))

\* FileInfo::reinternalize
FileInfo_reinternalize(i, st) ==
    [i EXCEPT !.path = SerState_get(st, "FilePath", @),
              !.entity = SerState_get(st, "FileEntity", @),
              !.desc = SerState_get(st, "FileDesc", @)]

FileInfo_panicked(i) == i.path = PANIC \/ i.entity = PANIC \/ i.desc = PANIC

(* file_group.rs *)

\* FileGroup::child_range
FileGroup_child_range(g) == checked_range(g.child_start, g.child_count)

\* FileGroup::reserve
FileGroup_reserve(g, st, is_data) ==
    IF is_data THEN TryReserveEach(st, "FileData", FileGroup_child_range(g))
    ELSE SerState_reserve_range(st, "FileInfo", g.child_start, g.child_count)

\* FileGroup::reinternalize_data
FileGroup_reinternalize_data(g, st, package_len) ==
    [g EXCEPT
       !.child_start = SerState_get(st, "FileData", @),
       !.redirection =
           IF @ # INVALID_INDEX
           THEN IF @ >= package_len THEN SerState_get(st, "FileGroup", @)
                ELSE SerState_get(st, "FilePackage", @)
           ELSE @]

\* FileGroup::reinternalize_info
FileGroup_reinternalize_info(g, st) ==
    [g EXCEPT !.child_start = SerState_get(st, "FileInfo", @),
              !.redirection = SerState_get(st, "FileGroup", @)]

FileGroup_panicked(g) == g.child_start = PANIC \/ g.redirection = PANIC

(* file_package.rs *)

\* FilePackageChild::reinternalize
FilePackageChild_reinternalize(c, st) ==
    HashWithData_set_data(c, SerState_get(st, "FilePackage", HashWithData_data(c)))

FilePackageChild_panicked(c) == c.len_and_data = PanicWord

\* FilePackage::info_range
FilePackage_info_range(p) == checked_range(p.info_start, p.info_count)

\* FilePackage::data_group_range
FilePackage_data_group_range(p) ==
    checked_range(HashWithData_data(p.path_and_group),
        IF HasFlag(p.flags, PKG_IS_LOCALIZED) THEN LOCALE_COUNT + 1
        ELSE IF HasFlag(p.flags, PKG_IS_REGIONAL) THEN REGION_COUNT + 1
        ELSE 1)

\* FilePackage::reserve
FilePackage_reserve(p, st) ==
    LET s1 == SerState_reserve_range(st, "FilePackageChild",
                                     p.child_start, p.child_count)
        s2 == SerState_reserve_range(s1, "FileInfo", p.info_start, p.info_count)
    IN  SerState_reserve_range(s2, "FileGroup",
            HashWithData_data(p.path_and_group),
            Len(FilePackage_data_group_range(p)))

\* FilePackage::reinternalize
FilePackage_reinternalize(p, st) ==
    [p EXCEPT
       !.child_start = IF p.child_count = 0 THEN INVALID_INDEX
                       ELSE SerState_get(st, "FilePackageChild", @),
       !.info_start = IF p.info_count = 0 THEN INVALID_INDEX
                      ELSE SerState_get(st, "FileInfo", @),
       !.path_and_group =
           HashWithData_set_data(@,
               SerState_get(st, "FileGroup", HashWithData_data(@)))]

FilePackage_panicked(p) ==
    \/ p.child_start = PANIC
    \/ p.info_start = PANIC
    \/ p.path_and_group.len_and_data = PanicWord

(* stream_folder.rs, stream_path.rs, stream_desc.rs *)

\* StreamFolder::stream_path_range
StreamFolder_stream_path_range(f) ==
    checked_range(f.child_start_index, HashWithData_data(f.name_and_child_count))

\* StreamFolder::reserve
StreamFolder_reserve(f, st) ==
    SerState_reserve_range(st, "StreamPath", f.child_start_index,
                           HashWithData_data(f.name_and_child_count))

\* StreamFolder::reinternalize
StreamFolder_reinternalize(f, st) ==
    [f EXCEPT !.child_start_index = SerState_get(st, "StreamPath", @)]

StreamFolder_panicked(f) == f.child_start_index = PANIC

\* StreamPath::descriptor_range
StreamPath_descriptor_range(p) ==
    checked_range(HashWithData_data(p.path_and_desc),
        IF HasFlag(p.flags, STREAM_IS_LOCALIZED) THEN LOCALE_COUNT
        ELSE IF HasFlag(p.flags, STREAM_IS_REGIONAL) THEN REGION_COUNT
        ELSE 1)

\* StreamPath::reserve
StreamPath_reserve(p, st) ==
    SerState_reserve_range(st, "StreamDesc", HashWithData_data(p.path_and_desc),
                           Len(StreamPath_descriptor_range(p)))

\* StreamPath::reinternalize
StreamPath_reinternalize(p, st) ==
    [p EXCEPT !.path_and_desc =
        HashWithData_set_data(@,
            SerState_get(st, "StreamDesc", HashWithData_data(@)))]

StreamPath_panicked(p) == p.path_and_desc.len_and_data = PanicWord

\* StreamDesc::reserve
StreamDesc_reserve(d, st) == SerState_try_reserve(st, "StreamData", d.stream_data)

\* StreamDesc::reinternalize
StreamDesc_reinternalize(d, st) ==
    [d EXCEPT !.stream_data = SerState_get(st, "StreamData", @)]

StreamDesc_panicked(d) == d.stream_data = PANIC

-----------------------------------------------------------------------------
(* The #[repr(C)] layouts: BinaryRepr::cast_bytes writes a record as its     *)
(* fields in declaration order, BinaryRepr::cast_slice reads it back.        *)

Zero4 == <<0, 0, 0, 0>>

HashWithData_bytes(h) == LE32(h.crc) \o h.len_and_data
HashWithData_cast(b, off) ==
    [crc |-> U32At(b, off), len_and_data |-> Slice(b, off + 4, 4)]

\* Hash is (u32, u8) padded to 8 bytes
Hash_bytes(h) == LE32(h.crc) \o <<h.len, 0, 0, 0>>
Hash_cast(b, off) == [crc |-> U32At(b, off), len |-> U8At(b, off + 4)]

StreamFolder_size == 12
StreamFolder_bytes(f) ==
    HashWithData_bytes(f.name_and_child_count) \o LE32(f.child_start_index)
StreamFolder_cast(b, off) ==
    [name_and_child_count |-> HashWithData_cast(b, off),
     child_start_index |-> U32At(b, off + 8)]

HashWithData_size == 8

StreamPath_size == 12
StreamPath_bytes(p) == HashWithData_bytes(p.path_and_desc) \o LE32(p.flags)
StreamPath_cast(b, off) ==
    [path_and_desc |-> HashWithData_cast(b, off), flags |-> U32At(b, off + 8)]

StreamDesc_size == 4
StreamDesc_bytes(d) == LE32(d.stream_data)
StreamDesc_cast(b, off) == [stream_data |-> U32At(b, off)]

\* two u64, of which the model uses the low words
StreamData_size == 16
StreamData_bytes(d) == LE32(d.size) \o Zero4 \o LE32(d.offset) \o Zero4
StreamData_cast(b, off) == [size |-> U32At(b, off), offset |-> U32At(b, off + 8)]

Bucket_size == 8
Bucket_bytes(k) == LE32(k.start) \o LE32(k.len)
Bucket_cast(b, off) == [start |-> U32At(b, off), len |-> U32At(b, off + 4)]

FilePath_size == 32
FilePath_bytes(p) ==
    HashWithData_bytes(p.path_and_entity) \o HashWithData_bytes(p.ext_and_version)
        \o Hash_bytes(p.parent) \o Hash_bytes(p.file_name)
FilePath_cast(b, off) ==
    [path_and_entity |-> HashWithData_cast(b, off),
     ext_and_version |-> HashWithData_cast(b, off + 8),
     parent |-> Hash_cast(b, off + 16),
     file_name |-> Hash_cast(b, off + 24)]

FileEntity_size == 8
FileEntity_bytes(e) == LE32(e.package_or_group) \o LE32(e.info)
FileEntity_cast(b, off) ==
    [package_or_group |-> U32At(b, off), info |-> U32At(b, off + 4)]

FilePackage_size == 52
FilePackage_bytes(p) ==
    HashWithData_bytes(p.path_and_group) \o Hash_bytes(p.name)
        \o Hash_bytes(p.parent) \o Hash_bytes(p.lifetime)
        \o LE32(p.info_start) \o LE32(p.info_count)
        \o LE32(p.child_start) \o LE32(p.child_count) \o LE32(p.flags)
FilePackage_cast(b, off) ==
    [path_and_group |-> HashWithData_cast(b, off),
     name |-> Hash_cast(b, off + 8),
     parent |-> Hash_cast(b, off + 16),
     lifetime |-> Hash_cast(b, off + 24),
     info_start |-> U32At(b, off + 32),
     info_count |-> U32At(b, off + 36),
     child_start |-> U32At(b, off + 40),
     child_count |-> U32At(b, off + 44),
     flags |-> U32At(b, off + 48)]

FileGroup_size == 28
FileGroup_bytes(g) ==
    LE32(g.archive_offset[1]) \o LE32(g.archive_offset[2])
        \o LE32(g.decompressed_size) \o LE32(g.compressed_size)
        \o LE32(g.child_start) \o LE32(g.child_count) \o LE32(g.redirection)
FileGroup_cast(b, off) ==
    [archive_offset |-> <<U32At(b, off), U32At(b, off + 4)>>,
     decompressed_size |-> U32At(b, off + 8),
     compressed_size |-> U32At(b, off + 12),
     child_start |-> U32At(b, off + 16),
     child_count |-> U32At(b, off + 20),
     redirection |-> U32At(b, off + 24)]

FileInfo_size == 16
FileInfo_bytes(i) ==
    LE32(i.path) \o LE32(i.entity) \o LE32(i.desc) \o LE32(i.flags)
FileInfo_cast(b, off) ==
    [path |-> U32At(b, off), entity |-> U32At(b, off + 4),
     desc |-> U32At(b, off + 8), flags |-> U32At(b, off + 12)]

FileDesc_size == 12
FileDesc_bytes(d) == LE32(d.group) \o LE32(d.file_data) \o LE32(d.load_method)
FileDesc_cast(b, off) ==
    [group |-> U32At(b, off), file_data |-> U32At(b, off + 4),
     load_method |-> U32At(b, off + 8)]

FileData_size == 16
FileData_bytes(d) ==
    LE32(d.in_group_offset) \o LE32(d.compressed_size)
        \o LE32(d.decompressed_size) \o LE32(d.flags)
FileData_cast(b, off) ==
    [in_group_offset |-> U32At(b, off), compressed_size |-> U32At(b, off + 4),
     decompressed_size |-> U32At(b, off + 8), flags |-> U32At(b, off + 12)]

-----------------------------------------------------------------------------
(* archive/containers : Table, IndexLookup, BucketLookup *)

\* Table::get : Some(record) when index < len
Table_has(t, index) == index >= 0 /\ index < Len(t)
Table_at(t, index) == t[index + 1]

\* Table::iter : the indices 0..len-1 in order
Table_indices(t) == [k \in 1..Len(t) |-> k - 1]

\* IndexLookup::iter / BucketLookup::iter : (hash40, data) of every entry, in
\* the order the entries lie in the buffer
Lookup_iter(entries) ==
    [k \in 1..Len(entries) |->
        [hash |-> HashWithData_hash40(entries[k]),
         index |-> HashWithData_data(entries[k])]]

\* size_of::<T>() of the record type named T
Record_size(T) ==
    CASE T = "StreamFolder" -> StreamFolder_size
      [] T = "HashWithData" -> HashWithData_size
      [] T = "StreamPath" -> StreamPath_size
      [] T = "StreamDesc" -> StreamDesc_size
      [] T = "StreamData" -> StreamData_size
      [] T = "Bucket" -> Bucket_size
      [] T = "FilePath" -> FilePath_size
      [] T = "FileEntity" -> FileEntity_size
      [] T = "FilePackage" -> FilePackage_size
      [] T = "FileGroup" -> FileGroup_size
      [] T = "FileInfo" -> FileInfo_size
      [] T = "FileDesc" -> FileDesc_size
      [] T = "FileData" -> FileData_size

\* T::cast at offset off of b
Record_cast(T, b, off) ==
    CASE T = "StreamFolder" -> StreamFolder_cast(b, off)
      [] T = "HashWithData" -> HashWithData_cast(b, off)
      [] T = "StreamPath" -> StreamPath_cast(b, off)
      [] T = "StreamDesc" -> StreamDesc_cast(b, off)
      [] T = "StreamData" -> StreamData_cast(b, off)
      [] T = "Bucket" -> Bucket_cast(b, off)
      [] T = "FilePath" -> FilePath_cast(b, off)
      [] T = "FileEntity" -> FileEntity_cast(b, off)
      [] T = "FilePackage" -> FilePackage_cast(b, off)
      [] T = "FileGroup" -> FileGroup_cast(b, off)
      [] T = "FileInfo" -> FileInfo_cast(b, off)
      [] T = "FileDesc" -> FileDesc_cast(b, off)
      [] T = "FileData" -> FileData_cast(b, off)

\* T::cast_bytes of record r
Record_bytes(T, r) ==
    CASE T = "StreamFolder" -> StreamFolder_bytes(r)
      [] T = "HashWithData" -> HashWithData_bytes(r)
      [] T = "StreamPath" -> StreamPath_bytes(r)
      [] T = "StreamDesc" -> StreamDesc_bytes(r)
      [] T = "StreamData" -> StreamData_bytes(r)
      [] T = "Bucket" -> Bucket_bytes(r)
      [] T = "FilePath" -> FilePath_bytes(r)
      [] T = "FileEntity" -> FileEntity_bytes(r)
      [] T = "FilePackage" -> FilePackage_bytes(r)
      [] T = "FileGroup" -> FileGroup_bytes(r)
      [] T = "FileInfo" -> FileInfo_bytes(r)
      [] T = "FileDesc" -> FileDesc_bytes(r)
      [] T = "FileData" -> FileData_bytes(r)

\* Table::new / IndexLookup::new over count records of type T
CastTable(b, off, count, T) ==
    [k \in 1..count |-> Record_cast(T, b, off + (k - 1) * Record_size(T))]

TableBytes(t, T) == Concat([k \in 1..Len(t) |-> Record_bytes(T, t[k])])

-----------------------------------------------------------------------------
(* archive/resource.rs : ResourceTableHeader and ResourceTables::from_bytes *)

ResourceTableHeader_size == 272

\* the field at 32-bit word k of the header (byte offset 4k); locale_count and
\* region_count are the bytes at offsets 56 and 57
HeaderWord(b, k) == U32At(b, 4 * k)

ResourceTableHeader_cast(b) ==
    [file_path_count |-> HeaderWord(b, 1),
     file_entity_count |-> HeaderWord(b, 2),
     file_package_count |-> HeaderWord(b, 3),
     file_data_group_count |-> HeaderWord(b, 4),
     file_package_child_count |-> HeaderWord(b, 5),
     file_package_info_count |-> HeaderWord(b, 6),
     file_package_desc_count |-> HeaderWord(b, 7),
     file_package_data_count |-> HeaderWord(b, 8),
     file_info_group_count |-> HeaderWord(b, 9),
     file_group_info_count |-> HeaderWord(b, 10),
     locale_count |-> U8At(b, 56),
     region_count |-> U8At(b, 57),
     versioned_file_group_count |-> HeaderWord(b, 16),
     versioned_file_info_count |-> HeaderWord(b, 19),
     versioned_file_desc_count |-> HeaderWord(b, 20),
     versioned_file_data_count |-> HeaderWord(b, 21),
     stream_folder_count |-> HeaderWord(b, 64),
     stream_path_count |-> HeaderWord(b, 65),
     stream_desc_count |-> HeaderWord(b, 66),
     stream_data_count |-> HeaderWord(b, 67)]

\* the header as it lies in the buffer; fields the loader never reads are zero
ResourceTableHeader_bytes(h) ==
    LET w == [k \in 0..67 |->
                CASE k = 1 -> LE32(h.file_path_count)
                  [] k = 2 -> LE32(h.file_entity_count)
                  [] k = 3 -> LE32(h.file_package_count)
                  [] k = 4 -> LE32(h.file_data_group_count)
                  [] k = 5 -> LE32(h.file_package_child_count)
                  [] k = 6 -> LE32(h.file_package_info_count)
                  [] k = 7 -> LE32(h.file_package_desc_count)
                  [] k = 8 -> LE32(h.file_package_data_count)
                  [] k = 9 -> LE32(h.file_info_group_count)
                  [] k = 10 -> LE32(h.file_group_info_count)
                  [] k = 14 -> <<h.locale_count, h.region_count, 0, 0>>
                  [] k = 16 -> LE32(h.versioned_file_group_count)
                  [] k = 19 -> LE32(h.versioned_file_info_count)
                  [] k = 20 -> LE32(h.versioned_file_desc_count)
                  [] k = 21 -> LE32(h.versioned_file_data_count)
                  [] k = 64 -> LE32(h.stream_folder_count)
                  [] k = 65 -> LE32(h.stream_path_count)
                  [] k = 66 -> LE32(h.stream_desc_count)
                  [] k = 67 -> LE32(h.stream_data_count)
                  [] OTHER -> Zero4]
    IN  [i \in 1..ResourceTableHeader_size |-> w[(i - 1) \div 4][((i - 1) % 4) + 1]]

NoTables ==
    [stream_folder |-> <<>>, stream_path_lookup |-> <<>>, stream_path |-> <<>>,
     stream_desc |-> <<>>, stream_data |-> <<>>,
     file_path_lookup |-> [buckets |-> <<>>, entries |-> <<>>],
     file_path |-> <<>>, file_entity |-> <<>>, file_package_lookup |-> <<>>,
     file_package |-> <<>>, file_group |-> <<>>, file_package_child |-> <<>>,
     file_info |-> <<>>, file_desc |-> <<>>, file_data |-> <<>>]

\* the sections in the order from_bytes slices them: <<name, count, record size>>
\* (the file_path_lookup count and bucket count are read from the buffer itself)
Sections(h, lookup_count, bucket_count) ==
    << <<"stream_folder", h.stream_folder_count, StreamFolder_size>>,
       <<"stream_path_lookup", h.stream_path_count, HashWithData_size>>,
       <<"stream_path", h.stream_path_count, StreamPath_size>>,
       <<"stream_desc", h.stream_desc_count, StreamDesc_size>>,
       <<"stream_data", h.stream_data_count, StreamData_size>>,
       <<"file_path_lookup_header", 1, 8>>,
       <<"file_path_buckets", bucket_count, Bucket_size>>,
       <<"file_path_lookup", lookup_count, HashWithData_size>>,
       <<"file_path", h.file_path_count, FilePath_size>>,
       <<"file_entity", h.file_entity_count, FileEntity_size>>,
       <<"file_package_lookup", h.file_package_count, HashWithData_size>>,
       <<"file_package", h.file_package_count, FilePackage_size>>,
       <<"file_group", h.file_info_group_count + h.file_data_group_count
                         + h.versioned_file_group_count, FileGroup_size>>,
       <<"file_package_child", h.file_package_child_count, HashWithData_size>>,
       <<"file_info", h.file_package_info_count + h.file_group_info_count
                        + h.versioned_file_info_count, FileInfo_size>>,
       <<"file_desc", h.file_package_desc_count + h.file_group_info_count
                        + h.versioned_file_desc_count, FileDesc_size>>,
       <<"file_data", h.file_package_data_count + h.file_group_info_count
                        + h.versioned_file_data_count, FileData_size>> >>

\* cursor_pos before section k: each section starts where the previous ends
RECURSIVE SectionOffset(_, _)
SectionOffset(secs, k) ==
    IF k = 1 THEN ResourceTableHeader_size
    ELSE SectionOffset(secs, k - 1) + secs[k - 1][2] * secs[k - 1][3]

\* from_bytes without the region_count test
from_bytes_region_unchecked(b) ==
    IF Len(b) < ResourceTableHeader_size
    THEN [kind |-> "undefined", tables |-> NoTables]
    ELSE
    IF U8At(b, 56) # LOCALE_COUNT
    THEN [kind |-> "error", tables |-> NoTables]
    ELSE
    LET h == ResourceTableHeader_cast(b)
        pre == Sections(h, 0, 0)
        hdr_off == SectionOffset(pre, 6)
    IN
    IF Len(b) < hdr_off + 8 THEN [kind |-> "panic", tables |-> NoTables]
    ELSE
    LET secs == Sections(h, U32At(b, hdr_off), U32At(b, hdr_off + 4))
        off(k) == SectionOffset(secs, k)
        n(k) == secs[k][2]
    IN
    IF Len(b) < off(17) + secs[17][2] * secs[17][3]
    THEN [kind |-> "undefined", tables |-> NoTables]
    ELSE
    [kind |-> "ok",
     tables |->
       [stream_folder |-> CastTable(b, off(1), n(1), "StreamFolder"),
        stream_path_lookup |-> CastTable(b, off(2), n(2), "HashWithData"),
        stream_path |-> CastTable(b, off(3), n(3), "StreamPath"),
        stream_desc |-> CastTable(b, off(4), n(4), "StreamDesc"),
        stream_data |-> CastTable(b, off(5), n(5), "StreamData"),
        file_path_lookup |->
            [buckets |-> CastTable(b, off(7), n(7), "Bucket"),
             entries |-> CastTable(b, off(8), n(8), "HashWithData")],
        file_path |-> CastTable(b, off(9), n(9), "FilePath"),
        file_entity |-> CastTable(b, off(10), n(10), "FileEntity"),
        file_package_lookup |-> CastTable(b, off(11), n(11), "HashWithData"),
        file_package |-> CastTable(b, off(12), n(12), "FilePackage"),
        file_group |-> CastTable(b, off(13), n(13), "FileGroup"),
        file_package_child |-> CastTable(b, off(14), n(14), "HashWithData"),
        file_info |-> CastTable(b, off(15), n(15), "FileInfo"),
        file_desc |-> CastTable(b, off(16), n(16), "FileDesc"),
        file_data |-> CastTable(b, off(17), n(17), "FileData")]]

\* ResourceTables::from_bytes.  kind is "ok", "error" (Err(InvalidData)),
\* "panic" (a checked slice past the end of the buffer) or "undefined" (an
\* unchecked cast over fewer bytes than the records it is told to hold).
from_bytes(b) ==
    IF Len(b) < ResourceTableHeader_size
    THEN [kind |-> "undefined", tables |-> NoTables]
    ELSE
    IF U8At(b, 56) # LOCALE_COUNT \/ U8At(b, 57) # REGION_COUNT
    THEN [kind |-> "error", tables |-> NoTables]
    ELSE
    LET h == ResourceTableHeader_cast(b)
        pre == Sections(h, 0, 0)
        hdr_off == SectionOffset(pre, 6)
    IN
    IF Len(b) < hdr_off + 8 THEN [kind |-> "panic", tables |-> NoTables]
    ELSE
    LET secs == Sections(h, U32At(b, hdr_off), U32At(b, hdr_off + 4))
        off(k) == SectionOffset(secs, k)
        n(k) == secs[k][2]
    IN
    IF Len(b) < off(17) + secs[17][2] * secs[17][3]
    THEN [kind |-> "undefined", tables |-> NoTables]
    ELSE
    [kind |-> "ok",
     tables |->
       [stream_folder |-> CastTable(b, off(1), n(1), "StreamFolder"),
        stream_path_lookup |-> CastTable(b, off(2), n(2), "HashWithData"),
        stream_path |-> CastTable(b, off(3), n(3), "StreamPath"),
        stream_desc |-> CastTable(b, off(4), n(4), "StreamDesc"),
        stream_data |-> CastTable(b, off(5), n(5), "StreamData"),
        file_path_lookup |->
            [buckets |-> CastTable(b, off(7), n(7), "Bucket"),
             entries |-> CastTable(b, off(8), n(8), "HashWithData")],
        file_path |-> CastTable(b, off(9), n(9), "FilePath"),
        file_entity |-> CastTable(b, off(10), n(10), "FileEntity"),
        file_package_lookup |-> CastTable(b, off(11), n(11), "HashWithData"),
        file_package |-> CastTable(b, off(12), n(12), "FilePackage"),
        file_group |-> CastTable(b, off(13), n(13), "FileGroup"),
        file_package_child |-> CastTable(b, off(14), n(14), "HashWithData"),
        file_info |-> CastTable(b, off(15), n(15), "FileInfo"),
        file_desc |-> CastTable(b, off(16), n(16), "FileDesc"),
        file_data |-> CastTable(b, off(17), n(17), "FileData")]]

-----------------------------------------------------------------------------
(* The loaded archives the model starts from.  Two shapes:                   *)
(*  - Minimal: one package owning one info, one descriptor, one data, with    *)
(*    one data group and no info-bearing group;                              *)
(*  - Full: two packages, two data groups, one info-bearing group that a      *)
(*    package may name as its subpackage, a possible symlink, descriptors     *)
(*    that may share file data, and pad unreferenced (versioned) records in   *)
(*    front of every table that is compacted.                                *)
(* Every parameter is an index or a flag word some field of the buffer holds. *)

PadSeq(n, rec) == [k \in 1..n |-> rec]

MkGroup(tag, child_start, child_count, redirection) ==
    [archive_offset |-> <<tag, 0>>, decompressed_size |-> tag + 1,
     compressed_size |-> tag + 2, child_start |-> child_start,
     child_count |-> child_count, redirection |-> redirection]

MkData(tag) ==
    [in_group_offset |-> tag, compressed_size |-> 16, decompressed_size |-> 16,
     flags |-> 0]

MkPackage(crc, len, group, istart, icount, cstart, ccount, flags) ==
    [path_and_group |-> HashWithData_new(Hash40(crc, len), group),
     name |-> Hash(crc + 1, 3), parent |-> Hash(crc + 2, 4),
     lifetime |-> Hash(crc + 3, 8),
     info_start |-> istart, info_count |-> icount,
     child_start |-> cstart, child_count |-> ccount, flags |-> flags]

MkPath(crc, len, entity, version) ==
    [path_and_entity |-> HashWithData_new(Hash40(crc, len), entity),
     ext_and_version |-> HashWithData_new(Hash40(crc + 1, 5), version),
     parent |-> Hash(crc + 2, 6), file_name |-> Hash(crc + 3, 7)]

MkHeader(t, group_infos, pad) ==
    [file_path_count |-> Len(t.file_path),
     file_entity_count |-> Len(t.file_entity),
     file_package_count |-> Len(t.file_package),
     file_data_group_count |-> Len(t.file_package),
     file_package_child_count |-> Len(t.file_package_child),
     file_package_info_count |-> Len(t.file_info) - group_infos - pad,
     file_package_desc_count |-> Len(t.file_desc) - group_infos - pad,
     file_package_data_count |-> Len(t.file_data) - group_infos - pad,
     file_info_group_count |-> Len(t.file_group) - Len(t.file_package) - pad,
     file_group_info_count |-> group_infos,
     locale_count |-> LOCALE_COUNT, region_count |-> REGION_COUNT,
     versioned_file_group_count |-> pad,
     versioned_file_info_count |-> pad,
     versioned_file_desc_count |-> pad,
     versioned_file_data_count |-> pad,
     stream_folder_count |-> Len(t.stream_folder),
     stream_path_count |-> Len(t.stream_path),
     stream_desc_count |-> Len(t.stream_desc),
     stream_data_count |-> Len(t.stream_data)]

\* the sections of a table set, as they lie in a buffer behind the header
TablesBytes(t) ==
    TableBytes(t.stream_folder, "StreamFolder")
      \o TableBytes(t.stream_path_lookup, "HashWithData")
      \o TableBytes(t.stream_path, "StreamPath")
      \o TableBytes(t.stream_desc, "StreamDesc")
      \o TableBytes(t.stream_data, "StreamData")
      \o LE32(Len(t.file_path_lookup.entries))
      \o LE32(Len(t.file_path_lookup.buckets))
      \o TableBytes(t.file_path_lookup.buckets, "Bucket")
      \o TableBytes(t.file_path_lookup.entries, "HashWithData")
      \o TableBytes(t.file_path, "FilePath")
      \o TableBytes(t.file_entity, "FileEntity")
      \o TableBytes(t.file_package_lookup, "HashWithData")
      \o TableBytes(t.file_package, "FilePackage")
      \o TableBytes(t.file_group, "FileGroup")
      \o TableBytes(t.file_package_child, "HashWithData")
      \o TableBytes(t.file_info, "FileInfo")
      \o TableBytes(t.file_desc, "FileDesc")
      \o TableBytes(t.file_data, "FileData")

ArchiveBytes(t, group_infos, pad) ==
    ResourceTableHeader_bytes(MkHeader(t, group_infos, pad)) \o TablesBytes(t)

\* load-method words the descriptors under test carry
LoadMethodWord(kind, payload) == kind * B24 + payload

Minimal(lm) ==
    [stream_folder |-> <<>>, stream_path_lookup |-> <<>>, stream_path |-> <<>>,
     stream_desc |-> <<>>, stream_data |-> <<>>,
     file_path_lookup |->
        [buckets |-> <<[start |-> 0, len |-> 1]>>,
         entries |-> <<HashWithData_new(Hash40(8192, 20), 0)>>],
     file_path |-> <<MkPath(8192, 20, 0, INVALID_INDEX)>>,
     file_entity |-> <<[package_or_group |-> 0, info |-> 0]>>,
     file_package_lookup |-> <<HashWithData_new(Hash40(4096, 10), 0)>>,
     file_package |-> <<MkPackage(4096, 10, 0, 0, 1, INVALID_INDEX, 0, 0)>>,
     file_group |-> <<MkGroup(700, 0, 1, INVALID_INDEX)>>,
     file_package_child |-> <<>>,
     file_info |-> <<[path |-> 0, entity |-> 0, desc |-> 0,
                      flags |-> INFO_IS_REGULAR_FILE]>>,
     file_desc |-> <<[group |-> 0, file_data |-> 0, load_method |-> lm]>>,
     file_data |-> <<MkData(500)>>]

\* p.pad  unreferenced records in front of the compacted tables
\* p.f0, p.f1  flags of package 0 and 1;  p.r0, p.r1  redirection of their data
\* groups, as an offset kind: "none", "pkg0", "info" (the info-bearing group)
\* p.c1  first child of data group 1, relative (1 overlaps group 0's children)
\* p.i1  info_start of package 1, whose info_count is 0
\* p.gic  child_count of the info-bearing group (1 or 2)
\* p.lm  load-method word of descriptor 0
\* p.fd1, p.fd2, p.fd3  file_data of descriptors 1..3, relative
\* p.e0, p.v0  entity index and previous-version index of file path 0
Full(p) ==
    LET P == p.pad
        GI == P + 2
        Redir(r) == CASE r = "none" -> INVALID_INDEX
                      [] r = "pkg0" -> 0
                      [] r = "info" -> GI
    IN
    [stream_folder |->
        <<[name_and_child_count |-> HashWithData_new(Hash40(20480, 6), 1),
           child_start_index |-> 0]>>,
     stream_path_lookup |-> <<HashWithData_new(Hash40(16384, 9), 0)>>,
     stream_path |->
        <<[path_and_desc |-> HashWithData_new(Hash40(16384, 9), P), flags |-> 0]>>,
     stream_desc |-> PadSeq(P, [stream_data |-> 0]) \o <<[stream_data |-> P]>>,
     stream_data |-> PadSeq(P, [size |-> 1, offset |-> 2])
                        \o <<[size |-> 100, offset |-> 200]>>,
     file_path_lookup |->
        [buckets |-> <<[start |-> 0, len |-> 1], [start |-> 1, len |-> 1]>>,
         entries |-> <<HashWithData_new(Hash40(8192, 20), 0),
                       HashWithData_new(Hash40(8448, 21), 1)>>],
     file_path |-> <<MkPath(8192, 20, p.e0, p.v0),
                     MkPath(8448, 21, 1, INVALID_INDEX)>>,
     file_entity |-> <<[package_or_group |-> 0, info |-> P],
                       [package_or_group |-> GI, info |-> P + 2]>>,
     file_package_lookup |-> <<HashWithData_new(Hash40(4096, 10), 0),
                               HashWithData_new(Hash40(4352, 11), 1)>>,
     file_package |->
        <<MkPackage(4096, 10, P, P, 2, P, 1, p.f0),
          MkPackage(4352, 11, P + 1, p.i1, 0, INVALID_INDEX, 0, p.f1)>>,
     file_group |->
        PadSeq(P, MkGroup(900, INVALID_INDEX, 0, INVALID_INDEX))
          \o <<MkGroup(700, P, 2, Redir(p.r0)),
               MkGroup(710, P + p.c1, 1, Redir(p.r1)),
               MkGroup(720, P + 2, p.gic, GI)>>,
     file_package_child |->
        PadSeq(P, HashWithData_new(Hash40(4096, 10), 0))
          \o <<HashWithData_new(Hash40(4352, 11), 1)>>,
     file_info |->
        PadSeq(P, [path |-> 0, entity |-> 0, desc |-> 0, flags |-> 0])
          \o <<[path |-> 0, entity |-> 0, desc |-> P, flags |-> INFO_IS_REGULAR_FILE],
               [path |-> 1, entity |-> 1, desc |-> P + 1, flags |-> INFO_IS_REGULAR_FILE],
               [path |-> 1, entity |-> 1, desc |-> P + 2, flags |-> INFO_IS_REGULAR_FILE],
               [path |-> 0, entity |-> 0, desc |-> P + 3, flags |-> INFO_IS_REGULAR_FILE]>>,
     file_desc |->
        PadSeq(P, [group |-> 0, file_data |-> 0, load_method |-> 0])
          \o <<[group |-> P, file_data |-> P, load_method |-> p.lm],
               [group |-> P, file_data |-> P + p.fd1,
                load_method |-> LoadMethodWord(3, P + 2)],
               [group |-> GI, file_data |-> P + p.fd2,
                load_method |-> LoadMethodWord(9, 1)],
               [group |-> GI, file_data |-> P + p.fd3,
                load_method |-> LoadMethodWord(16, 3)]>>,
     file_data |->
        PadSeq(P, MkData(400))
          \o <<MkData(500), MkData(501), MkData(502), MkData(503), MkData(504)>>]

\* an archive whose records fan out by their flags: one package with a run of
\* 15 data groups, one file info with a run of 15 descriptors, one stream path
\* with a run of 14 descriptors, and an info-bearing group behind the run
\* q.shift  unreferenced records in front of the runs; the stream paths in
\*          front belong to a second folder, so the folders reserve the
\*          stream paths in another order than the table's
\* q.pf, q.inf, q.sf  fan-out of the package, the file info and the stream
\*          path: "one", "loc", "reg" or "both" (localized and regional set)
\* q.start  "ok", or the record whose start index is INVALID: "info", "stream"
\* q.nb     buckets of the file path lookup: the first and the last hold one
\*          entry each and the ones between are empty
FanFlags(f, loc, reg) ==
    CASE f = "one" -> 0
      [] f = "loc" -> loc
      [] f = "reg" -> reg
      [] f = "both" -> loc + reg

Fanned(q) ==
    LET S == q.shift
        GI == S + LOCALE_COUNT + 1
    IN
    [stream_folder |->
        <<[name_and_child_count |-> HashWithData_new(Hash40(20480, 6), 1),
           child_start_index |-> S]>>
          \o (IF S = 0 THEN <<>>
              ELSE <<[name_and_child_count |-> HashWithData_new(Hash40(24576, 6), S),
                      child_start_index |-> 0]>>),
     stream_path_lookup |->
        [k \in 1..S |-> HashWithData_new(Hash40(28672 + k, 9), k - 1)]
          \o <<HashWithData_new(Hash40(16384, 9), S)>>,
     stream_path |->
        [k \in 1..S |->
            [path_and_desc |-> HashWithData_new(Hash40(28672 + k, 9), k - 1),
             flags |-> 0]]
          \o <<[path_and_desc |->
                  HashWithData_new(Hash40(16384, 9),
                      IF q.start = "stream" THEN INVALID_INDEX ELSE S),
                flags |-> FanFlags(q.sf, STREAM_IS_LOCALIZED, STREAM_IS_REGIONAL)]>>,
     stream_desc |-> PadSeq(S, [stream_data |-> 0])
                       \o [k \in 1..LOCALE_COUNT |-> [stream_data |-> k - 1]],
     stream_data |-> [k \in 1..LOCALE_COUNT |-> [size |-> 100 + k, offset |-> 200 + k]],
     file_path_lookup |->
        [buckets |->
            IF q.nb = 1 THEN <<[start |-> 0, len |-> 2]>>
            ELSE <<[start |-> 0, len |-> 1]>>
                   \o [k \in 1..(q.nb - 2) |-> [start |-> 1, len |-> 0]]
                   \o <<[start |-> 1, len |-> 1]>>,
         entries |-> <<HashWithData_new(Hash40(8192, 20), 0),
                       HashWithData_new(Hash40(8448, 21), 1)>>],
     file_path |-> <<MkPath(8192, 20, 0, INVALID_INDEX),
                     MkPath(8448, 21, 0, INVALID_INDEX)>>,
     file_entity |-> <<[package_or_group |-> 0, info |-> 0]>>,
     file_package_lookup |-> <<HashWithData_new(Hash40(4096, 10), 0)>>,
     file_package |->
        <<MkPackage(4096, 10, S, 0, 1, INVALID_INDEX, 0,
                    PKG_HAS_SUB_PACKAGE
                      + FanFlags(q.pf, PKG_IS_LOCALIZED, PKG_IS_REGIONAL))>>,
     file_group |->
        PadSeq(S, MkGroup(900, INVALID_INDEX, 0, INVALID_INDEX))
          \o [k \in 1..(LOCALE_COUNT + 1) |->
                MkGroup(700 + k, k - 1, 1, IF k = 1 THEN GI ELSE INVALID_INDEX)]
          \o <<MkGroup(720, 1, 1, GI)>>,
     file_package_child |-> <<>>,
     file_info |->
        <<[path |-> 0, entity |-> 0,
           desc |-> IF q.start = "info" THEN INVALID_INDEX ELSE S,
           flags |-> INFO_IS_REGULAR_FILE
                       + FanFlags(q.inf, INFO_IS_LOCALIZED, INFO_IS_REGIONAL)],
          [path |-> 0, entity |-> 0, desc |-> S + LOCALE_COUNT + 1,
           flags |-> INFO_IS_REGULAR_FILE]>>,
     file_desc |->
        PadSeq(S, [group |-> 0, file_data |-> 0, load_method |-> 0])
          \o [k \in 1..(LOCALE_COUNT + 1) |->
                [group |-> S, file_data |-> 0,
                 load_method |-> LoadMethodWord(16, k)]]
          \o <<[group |-> GI, file_data |-> LOCALE_COUNT + 1,
                load_method |-> LoadMethodWord(16, 99)]>>,
     file_data |-> [k \in 1..(LOCALE_COUNT + 2) |-> MkData(500 + k)]]

-----------------------------------------------------------------------------
(* file_package.rs : TableRef<FilePackage>::sub_package *)

\* sub_package with the sym-link target taken without looking it up
sub_package_sym_unchecked(t, pkg) ==
    IF ~HasFlag(pkg.flags, PKG_HAS_SUB_PACKAGE)
    THEN [kind |-> "None", index |-> INVALID_INDEX]
    ELSE
    LET dg == HashWithData_data(pkg.path_and_group) IN
    IF ~Table_has(t.file_group, dg)
    THEN [kind |-> "panic", index |-> INVALID_INDEX]
    ELSE
    LET redirection == Table_at(t.file_group, dg).redirection IN
    IF HasFlag(pkg.flags, PKG_IS_SYM_LINK)
    THEN [kind |-> "SymLink", index |-> redirection]
    ELSE IF redirection # INVALID_INDEX
    THEN IF Table_has(t.file_group, redirection)
         THEN [kind |-> "FileGroup", index |-> redirection]
         ELSE [kind |-> "panic", index |-> INVALID_INDEX]
    ELSE [kind |-> "None", index |-> INVALID_INDEX]

sub_package(t, pkg) ==
    IF ~HasFlag(pkg.flags, PKG_HAS_SUB_PACKAGE)
    THEN [kind |-> "None", index |-> INVALID_INDEX]
    ELSE
    LET dg == HashWithData_data(pkg.path_and_group) IN
    IF ~Table_has(t.file_group, dg)
    THEN [kind |-> "panic", index |-> INVALID_INDEX]
    ELSE
    LET redirection == Table_at(t.file_group, dg).redirection IN
    IF HasFlag(pkg.flags, PKG_IS_SYM_LINK)
    THEN IF Table_has(t.file_package, redirection)
         THEN [kind |-> "SymLink", index |-> redirection]
         ELSE [kind |-> "panic", index |-> INVALID_INDEX]
    ELSE IF redirection # INVALID_INDEX
    THEN IF Table_has(t.file_group, redirection)
         THEN [kind |-> "FileGroup", index |-> redirection]
         ELSE [kind |-> "panic", index |-> INVALID_INDEX]
    ELSE [kind |-> "None", index |-> INVALID_INDEX]

-----------------------------------------------------------------------------
(* archive/resource.rs : ResourceTables::into_bytes, the reserve phase *)

Fail(st) == [st EXCEPT !.ok = FALSE]

\* for group in package.data_group_range() { get(group).expect(..).reserve(cache, true) }
RECURSIVE ReserveDataGroups(_, _, _)
ReserveDataGroups(t, st, idxs) ==
    IF idxs = <<>> \/ ~st.ok THEN st
    ELSE IF ~Table_has(t.file_group, Head(idxs)) THEN Fail(st)
    ELSE ReserveDataGroups(t,
            FileGroup_reserve(Table_at(t.file_group, Head(idxs)), st, TRUE),
            Tail(idxs))

\* for info in package.info_range() { get(info).expect(..).reserve(cache) }
RECURSIVE ReservePackageInfos(_, _, _)
ReservePackageInfos(t, st, idxs) ==
    IF idxs = <<>> \/ ~st.ok THEN st
    ELSE IF ~Table_has(t.file_info, Head(idxs)) THEN Fail(st)
    ELSE ReservePackageInfos(t,
            FileInfo_reserve(Table_at(t.file_info, Head(idxs)), st), Tail(idxs))

\* the body of the loop over file_package (lines 186-210)
ReservePackage(t, acc, index) ==
    LET package == Table_at(t.file_package, index)
        s1 == SerState_reserve(acc.st, "FilePackage", index)
        s2 == FilePackage_reserve(package, s1)
        s3 == ReserveDataGroups(t, s2, FilePackage_data_group_range(package))
        s4 == ReservePackageInfos(t, s3, FilePackage_info_range(package))
        sub == sub_package(t, package)
    IN  IF ~s4.ok THEN [acc EXCEPT !.st = s4]
        ELSE IF sub.kind = "panic" THEN [acc EXCEPT !.st = Fail(s4)]
        ELSE IF sub.kind = "FileGroup"
        THEN [st |-> s4, groups |-> Append(acc.groups, sub.index)]
        ELSE [acc EXCEPT !.st = s4]

RECURSIVE PackagesLoop(_, _, _)
PackagesLoop(t, acc, idxs) ==
    IF idxs = <<>> \/ ~acc.st.ok THEN acc
    ELSE PackagesLoop(t, ReservePackage(t, acc, Head(idxs)), Tail(idxs))

\* for desc in info.descriptor_range() { get(desc).expect(..).reserve(cache) }
RECURSIVE ReserveGroupDescs(_, _, _)
ReserveGroupDescs(t, st, idxs) ==
    IF idxs = <<>> \/ ~st.ok THEN st
    ELSE IF ~Table_has(t.file_desc, Head(idxs)) THEN Fail(st)
    ELSE ReserveGroupDescs(t,
            FileDesc_reserve(Table_at(t.file_desc, Head(idxs)), st), Tail(idxs))

\* for info in group.child_range() { info.reserve(cache); its descriptors }
RECURSIVE ReserveGroupInfos(_, _, _)
ReserveGroupInfos(t, st, idxs) ==
    IF idxs = <<>> \/ ~st.ok THEN st
    ELSE IF ~Table_has(t.file_info, Head(idxs)) THEN Fail(st)
    ELSE LET info == Table_at(t.file_info, Head(idxs))
             s1 == FileInfo_reserve(info, st)
         IN  ReserveGroupInfos(t,
                ReserveGroupDescs(t, s1, FileInfo_descriptor_range(info)),
                Tail(idxs))

\* the body of the loop over info_groups (lines 214-244)
ReserveInfoGroup(t, acc, group) ==
    IF ~TryReserveInserts(acc.st, "FileGroup", group) THEN acc
    ELSE
    LET s1 == SerState_try_reserve(acc.st, "FileGroup", group)
        start == IF acc.info_start = NONE THEN group ELSE acc.info_start
    IN  IF ~Table_has(t.file_group, group)
        THEN [st |-> Fail(s1), info_start |-> start]
        ELSE LET g == Table_at(t.file_group, group)
                 s2 == FileGroup_reserve(g, s1, FALSE)
             IN  [st |-> ReserveGroupInfos(t, s2, FileGroup_child_range(g)),
                  info_start |-> start]

RECURSIVE InfoGroupsLoop(_, _, _)
InfoGroupsLoop(t, acc, groups) ==
    IF groups = <<>> \/ ~acc.st.ok THEN acc
    ELSE InfoGroupsLoop(t, ReserveInfoGroup(t, acc, Head(groups)), Tail(groups))

\* a whole-table reservation that walks the table from its last record
ReserveWholeTable_backwards(st, T, table) ==
    ReserveEach(st, T, [k \in 1..Len(table) |-> Len(table) - k])

\* for (index, _) in table.iter() { cache.reserve::<T>(index) } (lines 248-254)
ReserveWholeTable(st, T, table) == ReserveEach(st, T, Table_indices(table))

\* for desc in stream_path.descriptor_range() { get(desc).expect(..).reserve(cache) }
RECURSIVE ReserveStreamDescs(_, _, _)
ReserveStreamDescs(t, st, idxs) ==
    IF idxs = <<>> \/ ~st.ok THEN st
    ELSE IF ~Table_has(t.stream_desc, Head(idxs)) THEN Fail(st)
    ELSE ReserveStreamDescs(t,
            StreamDesc_reserve(Table_at(t.stream_desc, Head(idxs)), st), Tail(idxs))

RECURSIVE ReserveStreamPaths(_, _, _)
ReserveStreamPaths(t, st, idxs) ==
    IF idxs = <<>> \/ ~st.ok THEN st
    ELSE IF ~Table_has(t.stream_path, Head(idxs)) THEN Fail(st)
    ELSE LET path == Table_at(t.stream_path, Head(idxs))
             s1 == StreamPath_reserve(path, st)
         IN  ReserveStreamPaths(t,
                ReserveStreamDescs(t, s1, StreamPath_descriptor_range(path)),
                Tail(idxs))

\* the loop over stream_folder (lines 256-275)
RECURSIVE StreamFoldersLoop(_, _, _)
StreamFoldersLoop(t, st, idxs) ==
    IF idxs = <<>> \/ ~st.ok THEN st
    ELSE LET folder == Table_at(t.stream_folder, Head(idxs))
             s1 == SerState_reserve(st, "StreamFolder", Head(idxs))
             s2 == StreamFolder_reserve(folder, s1)
         IN  StreamFoldersLoop(t,
                ReserveStreamPaths(t, s2, StreamFolder_stream_path_range(folder)),
                Tail(idxs))

-----------------------------------------------------------------------------
(* archive/resource.rs : quick_serialize *)

\* ResourceTables::quick_serialize : the buffer it returns.
\* quick_serialize_table appends the records of a table as they are (fixed
\* part, then dynamic part); quick_serialize_lookup appends
\* HashWithData::new(hash, index) for every pair the lookup iterates
quick_serialize(t) ==
    LET lookup(entries) ==
            Concat([k \in 1..Len(entries) |->
                HashWithData_bytes(HashWithData_new(Lookup_iter(entries)[k].hash,
                                                    Lookup_iter(entries)[k].index))])
    IN  TableBytes(t.stream_folder, "StreamFolder")
          \o lookup(t.stream_path_lookup)
          \o TableBytes(t.stream_path, "StreamPath")
          \o TableBytes(t.stream_desc, "StreamDesc")
          \o lookup(t.file_path_lookup.entries)
          \o LE32(Len(t.file_path_lookup.entries))
          \o LE32(Len(t.file_path_lookup.buckets))
          \o Concat([k \in 1..Len(t.file_path_lookup.buckets) |->
                        Bucket_bytes(t.file_path_lookup.buckets[k])])
          \o TableBytes(t.file_path, "FilePath")
          \o TableBytes(t.file_entity, "FileEntity")
          \o lookup(t.file_package_lookup)
          \o TableBytes(t.file_package, "FilePackage")
          \o TableBytes(t.file_group, "FileGroup")
          \o TableBytes(t.file_package_child, "HashWithData")
          \o TableBytes(t.file_info, "FileInfo")
          \o TableBytes(t.file_desc, "FileDesc")
          \o TableBytes(t.file_data, "FileData")

-----------------------------------------------------------------------------
(* archive/resource.rs : write_table, write_lookup *)

\* the closure into_bytes passes to write_table for each table (|data|
\* data.reinternalize(&state), or |_| {} for StreamData and FileData); npk is
\* self.file_package.len()
Reinternalize(how, r, st, npk) ==
    CASE how = "StreamFolder" -> StreamFolder_reinternalize(r, st)
      [] how = "StreamPath" -> StreamPath_reinternalize(r, st)
      [] how = "StreamDesc" -> StreamDesc_reinternalize(r, st)
      [] how = "StreamData" -> r
      [] how = "FilePath" -> FilePath_reinternalize(r, st)
      [] how = "FileEntity" -> FileEntity_reinternalize(r, st, npk)
      [] how = "FilePackage" -> FilePackage_reinternalize(r, st)
      [] how = "FileGroup_data" -> FileGroup_reinternalize_data(r, st, npk)
      [] how = "FileGroup_info" -> FileGroup_reinternalize_info(r, st)
      [] how = "FilePackageChild" -> FilePackageChild_reinternalize(r, st)
      [] how = "FileInfo" -> FileInfo_reinternalize(r, st)
      [] how = "FileDesc" -> FileDesc_reinternalize(r, st)
      [] how = "FileData" -> r

\* the closure panicked (a state.get on an index that is not reserved)
Reinternalize_panicked(how, r) ==
    CASE how = "StreamFolder" -> StreamFolder_panicked(r)
      [] how = "StreamPath" -> StreamPath_panicked(r)
      [] how = "StreamDesc" -> StreamDesc_panicked(r)
      [] how = "StreamData" -> FALSE
      [] how = "FilePath" -> FilePath_panicked(r)
      [] how = "FileEntity" -> FileEntity_panicked(r)
      [] how = "FilePackage" -> FilePackage_panicked(r)
      [] how = "FileGroup_data" -> FileGroup_panicked(r)
      [] how = "FileGroup_info" -> FileGroup_panicked(r)
      [] how = "FilePackageChild" -> FilePackageChild_panicked(r)
      [] how = "FileInfo" -> FileInfo_panicked(r)
      [] how = "FileDesc" -> FileDesc_panicked(r)
      [] how = "FileData" -> FALSE

\* write_table : every index resolves (expect("invalid index")) and no rewrite panics
WriteTableOk(table, idxs, how, st, npk) ==
    \A k \in 1..Len(idxs) :
        /\ Table_has(table, idxs[k])
        /\ ~Reinternalize_panicked(how,
               Reinternalize(how, Table_at(table, idxs[k]), st, npk))

\* write_table taking the records in table order instead of the order of the
\* reserved indices
WriteTableRecs_table_order(table, idxs, how, st, npk) ==
    [k \in 1..Len(idxs) |-> Reinternalize(how, Table_at(table, k - 1), st, npk)]

WriteTableRecs(table, idxs, how, st, npk) ==
    [k \in 1..Len(idxs) |-> Reinternalize(how, Table_at(table, idxs[k]), st, npk)]

\* write_lookup::<T> : HashWithData::new(hash, state.get::<T>(index)) per entry
WriteLookupOk(entries, st, T) ==
    \A k \in 1..Len(entries) :
        SerState_get(st, T, Lookup_iter(entries)[k].index) # PANIC

\* write_lookup that writes the original index behind each hash
WriteLookupRecs_index_kept(entries, st, T) ==
    LET it == Lookup_iter(entries)
    IN  [k \in 1..Len(entries) |-> HashWithData_new(it[k].hash, it[k].index)]

WriteLookupRecs(entries, st, T) ==
    LET it == Lookup_iter(entries)
    IN  [k \in 1..Len(entries) |->
            HashWithData_new(it[k].hash, SerState_get(st, T, it[k].index))]

\* cache.iter::<FileGroup>().take_while(|index| *index < info_start)
RECURSIVE TakeWhileBelow(_, _)
TakeWhileBelow(s, bound) ==
    IF s = <<>> \/ ~(Head(s) < bound) THEN <<>>
    ELSE <<Head(s)>> \o TakeWhileBelow(Tail(s), bound)

\* cache.iter::<FileGroup>().skip_while(|index| *index < info_start)
RECURSIVE SkipWhileBelow(_, _)
SkipWhileBelow(s, bound) ==
    IF s = <<>> \/ ~(Head(s) < bound) THEN s
    ELSE SkipWhileBelow(Tail(s), bound)


-----------------------------------------------------------------------------
(* The inputs: buffers as they lie in an archive *)

Default ==
    [pad |-> 0, f0 |-> PKG_HAS_SUB_PACKAGE, r0 |-> "info", f1 |-> 0,
     r1 |-> "none", c1 |-> 2, i1 |-> INVALID_INDEX, gic |-> 2,
     lm |-> LoadMethodWord(0, 0), fd1 |-> 1, fd2 |-> 3, fd3 |-> 4,
     e0 |-> 0, v0 |-> INVALID_INDEX]

Pads == 0..MaxPad

\* package flags, subpackage redirections, overlapping data-group children
StructureSweep ==
    {[Default EXCEPT !.pad = pad, !.f0 = f0, !.r0 = r0, !.f1 = f1, !.r1 = r1,
                      !.c1 = c1] :
        pad \in Pads, f0 \in {0, PKG_HAS_SUB_PACKAGE}, r0 \in {"none", "info"},
        f1 \in {0, PKG_HAS_SUB_PACKAGE, PKG_HAS_SUB_PACKAGE + PKG_IS_SYM_LINK},
        r1 \in {"none", "pkg0", "info"}, c1 \in {1, 2}}

\* every load-method tag the code knows, one it does not, and payloads
LoadMethodSweep ==
    {[Default EXCEPT !.pad = pad, !.lm = LoadMethodWord(kind, payload)] :
        pad \in Pads, kind \in {0, 1, 2, 3, 5, 9, 16},
        payload \in {0, 1, 2, 3, 66, INVALID_INDEX}}

\* descriptors sharing file data with each other and with data groups
SharingSweep ==
    {[Default EXCEPT !.pad = pad, !.gic = gic, !.fd1 = fd1, !.fd2 = fd2,
                      !.fd3 = fd3] :
        pad \in Pads, gic \in {1, 2}, fd1 \in {0, 1}, fd2 \in {0, 3},
        fd3 \in {3, 4}}

\* file paths with and without an entity and a previous version
PathSweep ==
    {[Default EXCEPT !.pad = pad, !.e0 = e0, !.v0 = v0, !.i1 = i1] :
        pad \in Pads, e0 \in {0, 1, INVALID_INDEX},
        v0 \in {0, 66, INVALID_INDEX}, i1 \in {0, INVALID_INDEX}}

FullParams == StructureSweep \cup LoadMethodSweep \cup SharingSweep \cup PathSweep

\* the fan-outs: every flag combination of each record type, in front of
\* and behind unreferenced records, and runs that start at INVALID
FanSweep ==
    {[shift |-> shift, pf |-> f, inf |-> f, sf |-> f, start |-> "ok", nb |-> 1] :
        shift \in Pads, f \in {"one", "loc", "reg", "both"}}
      \cup {[shift |-> shift, pf |-> "loc", inf |-> "one", sf |-> "reg", start |-> st, nb |-> 1] :
                shift \in Pads, st \in {"ok", "info", "stream"}}
      \cup {[shift |-> shift, pf |-> "reg", inf |-> "loc", sf |-> "one", start |-> st, nb |-> 1] :
                shift \in Pads, st \in {"ok", "info", "stream"}}
      \cup {[shift |-> shift, pf |-> "one", inf |-> "reg", sf |-> "loc", start |-> st, nb |-> 1] :
                shift \in Pads, st \in {"ok", "info", "stream"}}
      \cup {[shift |-> shift, pf |-> "one", inf |-> "one", sf |-> "one",
             start |-> "ok", nb |-> nb] :
                shift \in Pads, nb \in 2..MaxBuckets}

\* the default archive with the children of its data groups overlapping the
\* other way round: group 0 has the file data 1 and 2, group 1, reserved after
\* it, the file data 0 and 1
ChildrenOverlap ==
    [Full(Default) EXCEPT !.file_group[1].child_start = 1,
                          !.file_group[2].child_start = 0,
                          !.file_group[2].child_count = 2]

\* the default archive with its groups laid out the other way round: two
\* unreferenced groups, the info-bearing group at index 2 and the two data
\* groups behind it at 3 and 4
InfoGroupFirst ==
    LET t == Full(Default)
        moved(g) == CASE g = 0 -> 3 [] g = 1 -> 4 [] OTHER -> g
    IN  [t EXCEPT
           !.file_group =
               PadSeq(2, MkGroup(900, INVALID_INDEX, 0, INVALID_INDEX))
                 \o <<t.file_group[3], t.file_group[1], t.file_group[2]>>,
           !.file_package =
               [k \in 1..Len(t.file_package) |->
                   [t.file_package[k] EXCEPT
                      !.path_and_group =
                          HashWithData_new(HashWithData_hash40(@),
                                           moved(HashWithData_data(@)))]],
           !.file_desc =
               [k \in 1..Len(t.file_desc) |->
                   [t.file_desc[k] EXCEPT !.group = moved(@)]]]

\* a header whose locale or region count is not the one the loader expects
BadCounts(b) ==
    {[b EXCEPT ![57] = 13], [b EXCEPT ![58] = 6]}

Archives ==
    {ArchiveBytes(Full(p), 2, p.pad) : p \in FullParams}
      \cup {ArchiveBytes(Minimal(LoadMethodWord(kind, payload)), 0, 0) :
               kind \in {0, 1, 5}, payload \in {0, 66}}
      \cup {ArchiveBytes(Fanned(q), 1, 0) : q \in FanSweep}
      \cup {ArchiveBytes(InfoGroupFirst, 2, 0)}
      \cup {ArchiveBytes(ChildrenOverlap, 2, 0)}
      \cup BadCounts(ArchiveBytes(Full(Default), 2, 0))

-----------------------------------------------------------------------------
(* The state machine: load, re-serialize (reserve phase, emit phase), reload *)

EmittedNone ==
    [recs |-> NoTables, src |-> [T \in Types |-> <<>>], disp |-> <<>>,
     lookup_header |-> <<>>]

NotLoaded == [kind |-> "none", tables |-> NoTables]

HashIdle == HashWithData_new(Hash40(0, 0), 0)

\* the last HashWithData operation: its name, its arguments and the value it
\* was applied to
Hop(op, hash, data, before) ==
    [op |-> op, hash |-> hash, data |-> data, before |-> before]

\* no checked_range call yet
RangeIdle ==
    [start |-> ZERO_U32, count |-> ZERO_U32,
     out |-> [kind |-> "none", start |-> ZERO_U32, end |-> ZERO_U32]]

HopIdle == Hop("idle", Hash40(0, 0), 0, HashIdle)

Init ==
    /\ raw_data \in Archives
    /\ tables = NoTables
    /\ cache = SerState_new
    /\ info_groups = <<>>
    /\ info_start = NONE
    /\ buffer = <<>>
    /\ emitted = EmittedNone
    /\ reloaded = NotLoaded
    /\ pc = "load"
    /\ panicked_at = ""
    /\ hwd = HashIdle
    /\ hop = HopIdle
    /\ rcall = RangeIdle

\* ResourceTables::from_bytes(raw_data)
Load ==
    /\ pc = "load"
    /\ LET r == from_bytes(raw_data)
       IN  /\ tables' = r.tables
           /\ CASE r.kind = "ok" -> pc' = "packages" /\ panicked_at' = ""
                [] r.kind = "error" -> pc' = "load_error" /\ panicked_at' = ""
                [] r.kind = "panic" -> pc' = "abort" /\ panicked_at' = "load"
                [] r.kind = "undefined" ->
                       \E o \in {"abort", "load_error"} :
                           pc' = o /\ panicked_at' = "load"
    /\ UNCHANGED <<raw_data, cache, info_groups, info_start, buffer, emitted,
                   reloaded, hwd, hop, rcall>>

\* a step of the reserve phase: the new cache, or the abort of a panic
ReserveStep(here, next, st) ==
    /\ pc = here
    /\ cache' = st
    /\ IF st.ok THEN pc' = next /\ panicked_at' = panicked_at
       ELSE pc' = "abort" /\ panicked_at' = here
    /\ UNCHANGED <<raw_data, tables, buffer, emitted, reloaded, hwd, hop, rcall>>

\* lines 182-210
ReservePackages ==
    LET acc == PackagesLoop(tables, [st |-> SerState_new, groups |-> <<>>],
                            Table_indices(tables.file_package))
    IN  /\ ReserveStep("packages", "info_groups", acc.st)
        /\ info_groups' = acc.groups
        /\ UNCHANGED info_start

\* lines 212-244
ReserveInfoGroups ==
    LET acc == InfoGroupsLoop(tables, [st |-> cache, info_start |-> NONE],
                              info_groups)
    IN  /\ ReserveStep("info_groups", "info_start", acc.st)
        /\ info_start' = acc.info_start
        /\ UNCHANGED info_groups

\* line 246 : info_start.unwrap()
UnwrapInfoStart ==
    /\ pc = "info_start"
    /\ IF info_start = NONE THEN pc' = "abort" /\ panicked_at' = "info_start"
       ELSE pc' = "paths" /\ panicked_at' = panicked_at
    /\ UNCHANGED <<raw_data, tables, cache, info_groups, info_start, buffer,
                   emitted, reloaded, hwd, hop, rcall>>

\* lines 248-250
ReservePaths ==
    /\ ReserveStep("paths", "entities",
                   ReserveWholeTable(cache, "FilePath", tables.file_path))
    /\ UNCHANGED <<info_groups, info_start>>

\* lines 252-254
ReserveEntities ==
    /\ ReserveStep("entities", "stream_folders",
                   ReserveWholeTable(cache, "FileEntity", tables.file_entity))
    /\ UNCHANGED <<info_groups, info_start>>

\* lines 256-275
ReserveStreamFolders ==
    /\ ReserveStep("stream_folders", "write_stream_folder",
                   StreamFoldersLoop(tables, cache,
                                     Table_indices(tables.stream_folder)))
    /\ UNCHANGED <<info_groups, info_start>>

-----------------------------------------------------------------------------
(* The emit phase: one action per write_table / write_lookup call *)

\* a write that leaves four zero bytes behind what it appends
WriteStep_gap(here, next, ok, em, bytes) ==
    /\ pc = here
    /\ IF ok
       THEN /\ buffer' = buffer \o bytes \o Zero4
            /\ emitted' = em
            /\ pc' = next
            /\ panicked_at' = panicked_at
       ELSE /\ pc' = "abort"
            /\ panicked_at' = here
            /\ UNCHANGED <<buffer, emitted>>
    /\ UNCHANGED <<raw_data, tables, cache, info_groups, info_start, reloaded,
                   hwd, hop, rcall>>

\* a write either appends its bytes to the buffer or panics, and a panic
\* unwinds into_bytes without an output
WriteStep(here, next, ok, em, bytes) ==
    /\ pc = here
    /\ IF ok
       THEN /\ buffer' = buffer \o bytes
            /\ emitted' = em
            /\ pc' = next
            /\ panicked_at' = panicked_at
       ELSE /\ pc' = "abort"
            /\ panicked_at' = here
            /\ UNCHANGED <<buffer, emitted>>
    /\ UNCHANGED <<raw_data, tables, cache, info_groups, info_start, reloaded,
                   hwd, hop, rcall>>

\* lines 296-301
WriteStreamFolder ==
    LET idxs == SerState_iter(cache, "StreamFolder")
        recs == WriteTableRecs(tables.stream_folder, idxs, "StreamFolder", cache,
                               Len(tables.file_package))
    IN  WriteStep("write_stream_folder", "write_stream_path_lookup",
            WriteTableOk(tables.stream_folder, idxs, "StreamFolder", cache,
                         Len(tables.file_package)),
            [emitted EXCEPT !.recs.stream_folder = recs, !.src.StreamFolder = idxs],
            TableBytes(recs, "StreamFolder"))

\* line 302
WriteStreamPathLookup ==
    LET recs == WriteLookupRecs(tables.stream_path_lookup, cache, "StreamPath")
    IN  WriteStep("write_stream_path_lookup", "write_stream_path",
            WriteLookupOk(tables.stream_path_lookup, cache, "StreamPath"),
            [emitted EXCEPT !.recs.stream_path_lookup = recs],
            TableBytes(recs, "HashWithData"))

\* lines 303-308
WriteStreamPath ==
    LET idxs == SerState_iter(cache, "StreamPath")
        recs == WriteTableRecs(tables.stream_path, idxs, "StreamPath", cache,
                               Len(tables.file_package))
    IN  WriteStep("write_stream_path", "write_stream_desc",
            WriteTableOk(tables.stream_path, idxs, "StreamPath", cache,
                         Len(tables.file_package)),
            [emitted EXCEPT !.recs.stream_path = recs, !.src.StreamPath = idxs],
            TableBytes(recs, "StreamPath"))

\* lines 309-314
WriteStreamDesc ==
    LET idxs == SerState_iter(cache, "StreamDesc")
        recs == WriteTableRecs(tables.stream_desc, idxs, "StreamDesc", cache,
                               Len(tables.file_package))
    IN  WriteStep("write_stream_desc", "write_stream_data",
            WriteTableOk(tables.stream_desc, idxs, "StreamDesc", cache,
                         Len(tables.file_package)),
            [emitted EXCEPT !.recs.stream_desc = recs, !.src.StreamDesc = idxs],
            TableBytes(recs, "StreamDesc"))

\* lines 315-320
WriteStreamData ==
    LET idxs == SerState_iter(cache, "StreamData")
        recs == WriteTableRecs(tables.stream_data, idxs, "StreamData", cache,
                               Len(tables.file_package))
    IN  WriteStep("write_stream_data", "write_lookup_header",
            WriteTableOk(tables.stream_data, idxs, "StreamData", cache,
                         Len(tables.file_package)),
            [emitted EXCEPT !.recs.stream_data = recs, !.src.StreamData = idxs],
            TableBytes(recs, "StreamData"))

\* the lookup header written without the bucket directory behind it
WriteLookupHeader_no_directory ==
    LET lookup == tables.file_path_lookup
    IN  WriteStep("write_lookup_header", "write_file_path_lookup", TRUE,
            [emitted EXCEPT
               !.lookup_header = <<Len(lookup.entries), Len(lookup.buckets)>>],
            LE32(Len(lookup.entries)) \o LE32(Len(lookup.buckets)))

\* lines 322-327 : the entry count, the bucket count and the bucket directory
WriteLookupHeader ==
    LET lookup == tables.file_path_lookup
    IN  WriteStep("write_lookup_header", "write_file_path_lookup", TRUE,
            [emitted EXCEPT
               !.lookup_header = <<Len(lookup.entries), Len(lookup.buckets)>>,
               !.recs.file_path_lookup.buckets = lookup.buckets],
            LE32(Len(lookup.entries)) \o LE32(Len(lookup.buckets))
              \o TableBytes(lookup.buckets, "Bucket"))

\* line 329
WriteFilePathLookup ==
    LET recs == WriteLookupRecs(tables.file_path_lookup.entries, cache, "FilePath")
    IN  WriteStep("write_file_path_lookup", "write_file_path",
            WriteLookupOk(tables.file_path_lookup.entries, cache, "FilePath"),
            [emitted EXCEPT !.recs.file_path_lookup.entries = recs],
            TableBytes(recs, "HashWithData"))

\* lines 330-335
WriteFilePath ==
    LET idxs == SerState_iter(cache, "FilePath")
        recs == WriteTableRecs(tables.file_path, idxs, "FilePath", cache,
                               Len(tables.file_package))
    IN  WriteStep("write_file_path", "write_file_entity",
            WriteTableOk(tables.file_path, idxs, "FilePath", cache,
                         Len(tables.file_package)),
            [emitted EXCEPT !.recs.file_path = recs, !.src.FilePath = idxs],
            TableBytes(recs, "FilePath"))

\* lines 336-341
WriteFileEntity ==
    LET idxs == SerState_iter(cache, "FileEntity")
        recs == WriteTableRecs(tables.file_entity, idxs, "FileEntity", cache,
                               Len(tables.file_package))
    IN  WriteStep("write_file_entity", "write_file_package_lookup",
            WriteTableOk(tables.file_entity, idxs, "FileEntity", cache,
                         Len(tables.file_package)),
            [emitted EXCEPT !.recs.file_entity = recs, !.src.FileEntity = idxs],
            TableBytes(recs, "FileEntity"))

\* line 342
WriteFilePackageLookup ==
    LET recs == WriteLookupRecs(tables.file_package_lookup, cache, "FilePackage")
    IN  WriteStep("write_file_package_lookup", "write_file_package",
            WriteLookupOk(tables.file_package_lookup, cache, "FilePackage"),
            [emitted EXCEPT !.recs.file_package_lookup = recs],
            TableBytes(recs, "HashWithData"))

\* lines 343-348
WriteFilePackage ==
    LET idxs == SerState_iter(cache, "FilePackage")
        recs == WriteTableRecs(tables.file_package, idxs, "FilePackage", cache,
                               Len(tables.file_package))
    IN  WriteStep("write_file_package", "write_data_groups",
            WriteTableOk(tables.file_package, idxs, "FilePackage", cache,
                         Len(tables.file_package)),
            [emitted EXCEPT !.recs.file_package = recs, !.src.FilePackage = idxs],
            TableBytes(recs, "FilePackage"))

\* lines 349-356 : the groups reserved before the first one at or above info_start
WriteDataGroups ==
    LET idxs == TakeWhileBelow(SerState_iter(cache, "FileGroup"), info_start)
        recs == WriteTableRecs(tables.file_group, idxs, "FileGroup_data", cache,
                               Len(tables.file_package))
    IN  WriteStep("write_data_groups", "write_info_groups",
            WriteTableOk(tables.file_group, idxs, "FileGroup_data", cache,
                         Len(tables.file_package)),
            [emitted EXCEPT !.recs.file_group = recs, !.src.FileGroup = idxs,
                            !.disp = [k \in 1..Len(idxs) |-> "data"]],
            TableBytes(recs, "FileGroup"))

\* lines 357-364 : the rest of the reserved groups
WriteInfoGroups ==
    LET idxs == SkipWhileBelow(SerState_iter(cache, "FileGroup"), info_start)
        recs == WriteTableRecs(tables.file_group, idxs, "FileGroup_info", cache,
                               Len(tables.file_package))
    IN  WriteStep("write_info_groups", "write_file_package_child",
            WriteTableOk(tables.file_group, idxs, "FileGroup_info", cache,
                         Len(tables.file_package)),
            [emitted EXCEPT !.recs.file_group = @ \o recs,
                            !.src.FileGroup = @ \o idxs,
                            !.disp = @ \o [k \in 1..Len(idxs) |-> "info"]],
            TableBytes(recs, "FileGroup"))

\* lines 365-370
WriteFilePackageChild ==
    LET idxs == SerState_iter(cache, "FilePackageChild")
        recs == WriteTableRecs(tables.file_package_child, idxs, "FilePackageChild", cache,
                               Len(tables.file_package))
    IN  WriteStep("write_file_package_child", "write_file_info",
            WriteTableOk(tables.file_package_child, idxs, "FilePackageChild", cache,
                         Len(tables.file_package)),
            [emitted EXCEPT !.recs.file_package_child = recs, !.src.FilePackageChild = idxs],
            TableBytes(recs, "HashWithData"))

\* lines 371-376
WriteFileInfo ==
    LET idxs == SerState_iter(cache, "FileInfo")
        recs == WriteTableRecs(tables.file_info, idxs, "FileInfo", cache,
                               Len(tables.file_package))
    IN  WriteStep("write_file_info", "write_file_desc",
            WriteTableOk(tables.file_info, idxs, "FileInfo", cache,
                         Len(tables.file_package)),
            [emitted EXCEPT !.recs.file_info = recs, !.src.FileInfo = idxs],
            TableBytes(recs, "FileInfo"))

\* lines 377-382
WriteFileDesc ==
    LET idxs == SerState_iter(cache, "FileDesc")
        recs == WriteTableRecs(tables.file_desc, idxs, "FileDesc", cache,
                               Len(tables.file_package))
    IN  WriteStep("write_file_desc", "write_file_data",
            WriteTableOk(tables.file_desc, idxs, "FileDesc", cache,
                         Len(tables.file_package)),
            [emitted EXCEPT !.recs.file_desc = recs, !.src.FileDesc = idxs],
            TableBytes(recs, "FileDesc"))

\* lines 383-390 : the last write and Ok(buffer)
WriteFileData ==
    LET idxs == SerState_iter(cache, "FileData")
        recs == WriteTableRecs(tables.file_data, idxs, "FileData", cache,
                               Len(tables.file_package))
    IN  WriteStep("write_file_data", "done",
            WriteTableOk(tables.file_data, idxs, "FileData", cache,
                         Len(tables.file_package)),
            [emitted EXCEPT !.recs.file_data = recs, !.src.FileData = idxs],
            TableBytes(recs, "FileData"))

\* the finished output handed back to the loader
Reload ==
    /\ pc = "done"
    /\ reloaded' = from_bytes(buffer)
    /\ pc' = "reloaded"
    /\ UNCHANGED <<raw_data, tables, cache, info_groups, info_start, buffer,
                   emitted, panicked_at, hwd, hop, rcall>>

Next ==
    \/ Load
    \/ ReservePackages
    \/ ReserveInfoGroups
    \/ UnwrapInfoStart
    \/ ReservePaths
    \/ ReserveEntities
    \/ ReserveStreamFolders
    \/ WriteStreamFolder
    \/ WriteStreamPathLookup
    \/ WriteStreamPath
    \/ WriteStreamDesc
    \/ WriteStreamData
    \/ WriteLookupHeader
    \/ WriteFilePathLookup
    \/ WriteFilePath
    \/ WriteFileEntity
    \/ WriteFilePackageLookup
    \/ WriteFilePackage
    \/ WriteDataGroups
    \/ WriteInfoGroups
    \/ WriteFilePackageChild
    \/ WriteFileInfo
    \/ WriteFileDesc
    \/ WriteFileData
    \/ Reload

Spec == Init /\ [][Next]_vars

-----------------------------------------------------------------------------
(* The packed hash on its own: HashWithData::new, set_data, set_hash40 *)

HashValues == {Hash40(crc, len) : crc \in {0, 305419896}, len \in {0, 5, 255}}

\* 24-bit payloads: the small ones and patterns that reach every byte
DataValues == (0..MaxData) \cup {255, 256, 65536, 1193046, INVALID_INDEX}

InitHash ==
    /\ raw_data = <<>>
    /\ tables = NoTables
    /\ cache = SerState_new
    /\ info_groups = <<>>
    /\ info_start = NONE
    /\ buffer = <<>>
    /\ emitted = EmittedNone
    /\ reloaded = NotLoaded
    /\ pc = "hash"
    /\ panicked_at = ""
    /\ \E hash \in HashValues, data \in DataValues :
           /\ hwd = HashWithData_new(hash, data)
           /\ hop = Hop("new", hash, data, HashIdle)
    /\ rcall = RangeIdle

HashUnchanged ==
    UNCHANGED <<raw_data, tables, cache, info_groups, info_start, buffer,
                emitted, reloaded, pc, panicked_at, rcall>>

New ==
    /\ pc = "hash"
    /\ \E hash \in HashValues, data \in DataValues :
           /\ hwd' = HashWithData_new(hash, data)
           /\ hop' = Hop("new", hash, data, hwd)
    /\ HashUnchanged

SetData ==
    /\ pc = "hash"
    /\ \E data \in DataValues :
           /\ hwd' = HashWithData_set_data(hwd, data)
           /\ hop' = Hop("set_data", HashWithData_hash40(hwd), data, hwd)
    /\ HashUnchanged

SetHash40 ==
    /\ pc = "hash"
    /\ \E hash \in HashValues :
           /\ hwd' = HashWithData_set_hash40(hwd, hash)
           /\ hop' = Hop("set_hash40", hash, HashWithData_data(hwd), hwd)
    /\ HashUnchanged

NextHash == New \/ SetData \/ SetHash40

SpecHash == InitHash /\ [][NextHash]_vars

-----------------------------------------------------------------------------------------------------------------------------------------------------
(* The range specification: checked_range applied to 32-bit arguments *)

\* the arguments tried: around 0, around INVALID_INDEX, the middle and the top
\* of u32
RangeValues ==
    {U32(0, 0), U32(0, 1), U32(0, 2), U32(0, 65535), U32(255, 65533),
     U32(255, 65534), INVALID_U32, U32(256, 0), U32(32768, 0),
     U32(65535, 65534), U32(65535, 65535)}

InitRange ==
    /\ raw_data = <<>>
    /\ tables = NoTables
    /\ cache = SerState_new
    /\ info_groups = <<>>
    /\ info_start = NONE
    /\ buffer = <<>>
    /\ emitted = EmittedNone
    /\ reloaded = NotLoaded
    /\ pc = "range"
    /\ panicked_at = ""
    /\ hwd = HashIdle
    /\ hop = HopIdle
    /\ rcall = RangeIdle

CheckedRange ==
    /\ pc = "range"
    /\ \E start \in RangeValues, count \in RangeValues :
          \E out \in checked_range_u32(start, count) :
              rcall' = [start |-> start, count |-> count, out |-> out]
    /\ UNCHANGED <<raw_data, tables, cache, info_groups, info_start, buffer,
                   emitted, reloaded, pc, panicked_at, hwd, hop>>

NextRange == CheckedRange

SpecRange == InitRange /\ [][NextRange]_vars

-----------------------------------------------------------------------------
(* The quick specification: load, then quick_serialize the loaded tables *)

\* tables.quick_serialize() on the tables from_bytes returned
QuickSerialize ==
    /\ pc = "packages"
    /\ buffer' = quick_serialize(tables)
    /\ pc' = "quick_serialized"
    /\ UNCHANGED <<raw_data, tables, cache, info_groups, info_start, emitted,
                   reloaded, panicked_at, hwd, hop, rcall>>

NextQuick == Load \/ QuickSerialize

SpecQuick == Init /\ [][NextQuick]_vars

-----
(* Vocabulary of the properties *)

Done == pc \in {"done", "reloaded"}

Loaded == pc \notin {"load", "load_error", "hash"} /\ panicked_at # "load"

Data(h) == HashWithData_data(h)

Tag(word) == word \div B24
Payload(word) == word % B24

\* the new index of original index i of type T: its place in the emitted table
NewIndex(T, i) ==
    IF i = INVALID_INDEX THEN INVALID_INDEX
    ELSE IF i \in SeqRange(emitted.src[T]) THEN IndexOf(emitted.src[T], i)
    ELSE NONE

\* the original index behind new index n of type T
Back(T, n) ==
    IF n = INVALID_INDEX THEN INVALID_INDEX
    ELSE IF n >= 0 /\ n < Len(emitted.src[T]) THEN emitted.src[T][n + 1]
    ELSE NONE

Refers(i, table) == i = INVALID_INDEX \/ Table_has(table, i)

AllHave(idxs, table) == \A k \in 1..Len(idxs) : Table_has(table, idxs[k])

KnownTags == {0, 1, 3, 5, 9, 16}

\* a well-formed table set: every index a record embeds is INVALID or names a
\* record of the table it is an index of, every subpackage resolves, and
\* every load-method tag is known
WellFormed(t) ==
    /\ \A k \in 1..Len(t.file_package) :
          LET p == t.file_package[k]
          IN  /\ AllHave(FilePackage_data_group_range(p), t.file_group)
              /\ FilePackage_data_group_range(p) # <<>>
              /\ AllHave(FilePackage_info_range(p), t.file_info)
              /\ AllHave(checked_range(p.child_start, p.child_count),
                         t.file_package_child)
              /\ (p.info_start = INVALID_INDEX => p.info_count = 0)
              /\ (p.child_start = INVALID_INDEX => p.child_count = 0)
              /\ sub_package(t, p).kind # "panic"
    /\ \A k \in 1..Len(t.file_group) :
          LET g == t.file_group[k]
          IN  /\ Refers(g.redirection, t.file_group)
                    \/ Refers(g.redirection, t.file_package)
              /\ (g.child_start = INVALID_INDEX => g.child_count = 0)
              /\ AllHave(FileGroup_child_range(g), t.file_data)
                    \/ AllHave(FileGroup_child_range(g), t.file_info)
    /\ \A k \in 1..Len(t.file_info) :
          LET i == t.file_info[k]
          IN  /\ Refers(i.path, t.file_path)
              /\ Refers(i.entity, t.file_entity)
              /\ AllHave(FileInfo_descriptor_range(i), t.file_desc)
    /\ \A k \in 1..Len(t.file_desc) :
          LET d == t.file_desc[k]
          IN  /\ Refers(d.group, t.file_group)
              /\ Refers(d.file_data, t.file_data)
              /\ Tag(d.load_method) \in KnownTags
              /\ Tag(d.load_method) \in {0, 9}
                    => Refers(Payload(d.load_method), t.file_entity)
              /\ Tag(d.load_method) = 3
                    => Refers(Payload(d.load_method), t.file_info)
    /\ \A k \in 1..Len(t.file_path) :
          Refers(Data(t.file_path[k].path_and_entity), t.file_entity)
    /\ \A k \in 1..Len(t.file_entity) :
          /\ Refers(t.file_entity[k].package_or_group, t.file_group)
                \/ Refers(t.file_entity[k].package_or_group, t.file_package)
          /\ Refers(t.file_entity[k].info, t.file_info)
    /\ \A k \in 1..Len(t.file_package_child) :
          Refers(Data(t.file_package_child[k]), t.file_package)
    /\ \A k \in 1..Len(t.file_package_lookup) :
          Refers(Data(t.file_package_lookup[k]), t.file_package)
    /\ \A k \in 1..Len(t.file_path_lookup.entries) :
          Refers(Data(t.file_path_lookup.entries[k]), t.file_path)
    /\ \A k \in 1..Len(t.stream_folder) :
          AllHave(StreamFolder_stream_path_range(t.stream_folder[k]), t.stream_path)
    /\ \A k \in 1..Len(t.stream_path_lookup) :
          Refers(Data(t.stream_path_lookup[k]), t.stream_path)
    /\ \A k \in 1..Len(t.stream_path) :
          AllHave(StreamPath_descriptor_range(t.stream_path[k]), t.stream_desc)
    /\ \A k \in 1..Len(t.stream_desc) :
          Refers(t.stream_desc[k].stream_data, t.stream_data)

\* table sets t and r are equal under the per-type bijection the emit order
\* gives (new index n of type T stands for original index Back(T, n)); the
\* previous-version link of a path and the payload of an Owned load method
\* are not compared
SameTable(old, new, T, Same(_, _)) ==
    /\ Len(new) = Len(old)
    /\ SeqRange(emitted.src[T]) = {k - 1 : k \in 1..Len(old)}
    /\ \A k \in 1..Len(new) : Same(Table_at(old, Back(T, k - 1)), new[k])

SameLookup(old, new, T) ==
    /\ Len(new) = Len(old)
    /\ \A k \in 1..Len(new) :
          /\ HashWithData_hash40(new[k]) = HashWithData_hash40(old[k])
          /\ Back(T, Data(new[k])) = Data(old[k])

OwnerType(t, i) == IF i >= Len(t.file_package) THEN "FileGroup" ELSE "FilePackage"

EqualUnderBijection(t, r) ==
    /\ SameTable(t.stream_folder, r.stream_folder, "StreamFolder",
          LAMBDA o, n :
            /\ n.name_and_child_count = o.name_and_child_count
            /\ Back("StreamPath", n.child_start_index) = o.child_start_index)
    /\ SameLookup(t.stream_path_lookup, r.stream_path_lookup, "StreamPath")
    /\ SameTable(t.stream_path, r.stream_path, "StreamPath",
          LAMBDA o, n :
            /\ HashWithData_hash40(n.path_and_desc) = HashWithData_hash40(o.path_and_desc)
            /\ Back("StreamDesc", Data(n.path_and_desc)) = Data(o.path_and_desc)
            /\ n.flags = o.flags)
    /\ SameTable(t.stream_desc, r.stream_desc, "StreamDesc",
          LAMBDA o, n : Back("StreamData", n.stream_data) = o.stream_data)
    /\ SameTable(t.stream_data, r.stream_data, "StreamData", LAMBDA o, n : n = o)
    /\ r.file_path_lookup.buckets = t.file_path_lookup.buckets
    /\ SameLookup(t.file_path_lookup.entries, r.file_path_lookup.entries, "FilePath")
    /\ SameTable(t.file_path, r.file_path, "FilePath",
          LAMBDA o, n :
            /\ HashWithData_hash40(n.path_and_entity) = HashWithData_hash40(o.path_and_entity)
            /\ Back("FileEntity", Data(n.path_and_entity)) = Data(o.path_and_entity)
            /\ HashWithData_hash40(n.ext_and_version) = HashWithData_hash40(o.ext_and_version)
            /\ n.parent = o.parent
            /\ n.file_name = o.file_name)
    /\ SameTable(t.file_entity, r.file_entity, "FileEntity",
          LAMBDA o, n :
            /\ Back(OwnerType(t, o.package_or_group), n.package_or_group)
                  = o.package_or_group
            /\ Back("FileInfo", n.info) = o.info)
    /\ SameLookup(t.file_package_lookup, r.file_package_lookup, "FilePackage")
    /\ SameTable(t.file_package, r.file_package, "FilePackage",
          LAMBDA o, n :
            /\ HashWithData_hash40(n.path_and_group) = HashWithData_hash40(o.path_and_group)
            /\ Back("FileGroup", Data(n.path_and_group)) = Data(o.path_and_group)
            /\ <<n.name, n.parent, n.lifetime, n.flags>>
                  = <<o.name, o.parent, o.lifetime, o.flags>>
            /\ <<n.info_count, n.child_count>> = <<o.info_count, o.child_count>>
            /\ Back("FileInfo", n.info_start) = o.info_start
            /\ Back("FilePackageChild", n.child_start) = o.child_start)
    /\ SameTable(t.file_group, r.file_group, "FileGroup",
          LAMBDA o, n :
            /\ <<n.archive_offset, n.decompressed_size, n.compressed_size, n.child_count>>
                  = <<o.archive_offset, o.decompressed_size, o.compressed_size, o.child_count>>
            /\ \/ Back("FileData", n.child_start) = o.child_start
               \/ Back("FileInfo", n.child_start) = o.child_start
            /\ Back(OwnerType(t, o.redirection), n.redirection) = o.redirection)
    /\ SameTable(t.file_package_child, r.file_package_child, "FilePackageChild",
          LAMBDA o, n :
            /\ HashWithData_hash40(n) = HashWithData_hash40(o)
            /\ Back("FilePackage", Data(n)) = Data(o))
    /\ SameTable(t.file_info, r.file_info, "FileInfo",
          LAMBDA o, n :
            /\ n.flags = o.flags
            /\ Back("FilePath", n.path) = o.path
            /\ Back("FileEntity", n.entity) = o.entity
            /\ Back("FileDesc", n.desc) = o.desc)
    /\ SameTable(t.file_desc, r.file_desc, "FileDesc",
          LAMBDA o, n :
            /\ Back("FileGroup", n.group) = o.group
            /\ Back("FileData", n.file_data) = o.file_data
            /\ Tag(n.load_method) = Tag(o.load_method)
            /\ Tag(o.load_method) \in {0, 9}
                  => Back("FileEntity", Payload(n.load_method)) = Payload(o.load_method)
            /\ Tag(o.load_method) = 3
                  => Back("FileInfo", Payload(n.load_method)) = Payload(o.load_method)
            /\ Tag(o.load_method) \in {5, 16}
                  => Payload(n.load_method) = Payload(o.load_method))
    /\ SameTable(t.file_data, r.file_data, "FileData", LAMBDA o, n : n = o)

\* C1: Round-trip.  For every well-formed buffer, loading it, re-serializing
\* the tables and loading the output again completes and gives a table set
\* equal to the first load under a per-type index bijection; in particular
\* the loader accepts the re-serializer's output.
C1_RoundTrip ==
    (Loaded /\ WellFormed(tables) /\ pc \in {"abort", "reloaded"})
        => /\ pc = "reloaded"
           /\ reloaded.kind = "ok"
           /\ EqualUnderBijection(tables, reloaded.tables)

\* the emitted record at place k of a table and the input record it was made of
Em(field, k) == emitted.recs[field][k]
Orig(field, T, k) == Table_at(tables[field], emitted.src[T][k])
Places(field) == 1..Len(emitted.recs[field])

One(i) == IF i = INVALID_INDEX THEN {} ELSE {i}
Span(start, count) == IF start = INVALID_INDEX THEN {} ELSE start..(start + count - 1)

\* the new indices of type T that emitted records and lookup entries embed
Embedded(T) ==
    CASE T = "FilePath" ->
            UNION {One(Em("file_info", k).path) : k \in Places("file_info")}
              \cup UNION {One(Data(emitted.recs.file_path_lookup.entries[k])) :
                             k \in 1..Len(emitted.recs.file_path_lookup.entries)}
      [] T = "FileEntity" ->
            UNION {One(Data(Em("file_path", k).path_and_entity)) : k \in Places("file_path")}
              \cup UNION {One(Em("file_info", k).entity) : k \in Places("file_info")}
              \cup UNION {IF Tag(Em("file_desc", k).load_method) \in {0, 9}
                          THEN One(Payload(Em("file_desc", k).load_method)) ELSE {} :
                             k \in Places("file_desc")}
      [] T = "FilePackage" ->
            UNION {One(Data(Em("file_package_lookup", k))) :
                       k \in Places("file_package_lookup")}
              \cup UNION {One(Data(Em("file_package_child", k))) :
                             k \in Places("file_package_child")}
              \cup UNION {IF OwnerType(tables, Orig("file_entity", "FileEntity", k).package_or_group)
                               = "FilePackage"
                          THEN One(Em("file_entity", k).package_or_group) ELSE {} :
                             k \in Places("file_entity")}
              \cup UNION {IF emitted.disp[k] = "data"
                             /\ OwnerType(tables, Orig("file_group", "FileGroup", k).redirection)
                                  = "FilePackage"
                          THEN One(Em("file_group", k).redirection) ELSE {} :
                             k \in Places("file_group")}
      [] T = "FileGroup" ->
            UNION {SeqRange(FilePackage_data_group_range(Em("file_package", k))) :
                       k \in Places("file_package")}
              \cup UNION {One(Em("file_desc", k).group) : k \in Places("file_desc")}
              \cup UNION {IF OwnerType(tables, Orig("file_entity", "FileEntity", k).package_or_group)
                               = "FileGroup"
                          THEN One(Em("file_entity", k).package_or_group) ELSE {} :
                             k \in Places("file_entity")}
              \cup UNION {IF emitted.disp[k] = "info"
                             \/ OwnerType(tables, Orig("file_group", "FileGroup", k).redirection)
                                  = "FileGroup"
                          THEN One(Em("file_group", k).redirection) ELSE {} :
                             k \in Places("file_group")}
      [] T = "FileInfo" ->
            UNION {Span(Em("file_package", k).info_start, Em("file_package", k).info_count) :
                       k \in Places("file_package")}
              \cup UNION {IF emitted.disp[k] = "info"
                          THEN Span(Em("file_group", k).child_start, Em("file_group", k).child_count)
                          ELSE {} : k \in Places("file_group")}
              \cup UNION {One(Em("file_entity", k).info) : k \in Places("file_entity")}
              \cup UNION {IF Tag(Em("file_desc", k).load_method) = 3
                          THEN One(Payload(Em("file_desc", k).load_method)) ELSE {} :
                             k \in Places("file_desc")}
      [] T = "FileDesc" ->
            UNION {SeqRange(FileInfo_descriptor_range(Em("file_info", k))) :
                       k \in Places("file_info")}
      [] T = "FileData" ->
            UNION {One(Em("file_desc", k).file_data) : k \in Places("file_desc")}
              \cup UNION {IF emitted.disp[k] = "data"
                          THEN Span(Em("file_group", k).child_start, Em("file_group", k).child_count)
                          ELSE {} : k \in Places("file_group")}

ReferencedTypes ==
    {"FilePath", "FileEntity", "FilePackage", "FileGroup", "FileInfo",
     "FileDesc", "FileData"}

\* C2: Dense compaction.  After a completed re-serialization, for every file
\* table type T the non-INVALID new indices of type T embedded in emitted
\* records and lookup entries are exactly 0 .. |emitted T| - 1: no gap and no
\* out-of-range reference.
C2_DenseCompaction ==
    Done => \A T \in ReferencedTypes :
                Embedded(T) = {n - 1 : n \in 1..Len(emitted.src[T])}

\* an index field of an input record and of the record emitted for it: INVALID
\* in the one exactly when INVALID in the other
Kept(o, e) == (o = INVALID_INDEX) <=> (e = INVALID_INDEX)

\* C3: Sentinel preservation.  Every index field that holds INVALID in an
\* input record holds INVALID in the emitted record, and no field other than
\* FilePath.ext_and_version.data and the payload of an Owned load method
\* holds INVALID in the output without holding it in the input.
C3_SentinelPreserved ==
    Done =>
      /\ \A k \in Places("file_path") :
            LET o == Orig("file_path", "FilePath", k)
                e == Em("file_path", k)
            IN  /\ Kept(Data(o.path_and_entity), Data(e.path_and_entity))
                /\ Data(o.ext_and_version) = INVALID_INDEX
                      => Data(e.ext_and_version) = INVALID_INDEX
      /\ \A k \in Places("file_entity") :
            LET o == Orig("file_entity", "FileEntity", k)
                e == Em("file_entity", k)
            IN  Kept(o.package_or_group, e.package_or_group) /\ Kept(o.info, e.info)
      /\ \A k \in Places("file_package") :
            LET o == Orig("file_package", "FilePackage", k)
                e == Em("file_package", k)
            IN  /\ Kept(Data(o.path_and_group), Data(e.path_and_group))
                /\ Kept(o.info_start, e.info_start)
                /\ Kept(o.child_start, e.child_start)
      /\ \A k \in Places("file_group") :
            LET o == Orig("file_group", "FileGroup", k)
                e == Em("file_group", k)
            IN  Kept(o.child_start, e.child_start) /\ Kept(o.redirection, e.redirection)
      /\ \A k \in Places("file_package_child") :
            Kept(Data(Orig("file_package_child", "FilePackageChild", k)),
                 Data(Em("file_package_child", k)))
      /\ \A k \in Places("file_info") :
            LET o == Orig("file_info", "FileInfo", k)
                e == Em("file_info", k)
            IN  Kept(o.path, e.path) /\ Kept(o.entity, e.entity) /\ Kept(o.desc, e.desc)
      /\ \A k \in Places("file_desc") :
            LET o == Orig("file_desc", "FileDesc", k)
                e == Em("file_desc", k)
            IN  /\ Kept(o.group, e.group)
                /\ Kept(o.file_data, e.file_data)
                /\ Tag(o.load_method) # 1
                      => Kept(Payload(o.load_method), Payload(e.load_method))
      /\ \A k \in Places("stream_folder") :
            Kept(Orig("stream_folder", "StreamFolder", k).child_start_index,
                 Em("stream_folder", k).child_start_index)
      /\ \A k \in Places("stream_path") :
            Kept(Data(Orig("stream_path", "StreamPath", k).path_and_desc),
                 Data(Em("stream_path", k).path_and_desc))
      /\ \A k \in Places("stream_desc") :
            Kept(Orig("stream_desc", "StreamDesc", k).stream_data,
                 Em("stream_desc", k).stream_data)

\* C4: Every emitted FilePath has path_and_entity.data() equal to the new
\* index of the FileEntity the input path referenced and
\* ext_and_version.data() equal to INVALID, whatever previous version the
\* input held; the path hash and the extension hash are unchanged.
C4_FilePathRewritten ==
    Done =>
      \A k \in Places("file_path") :
        LET o == Orig("file_path", "FilePath", k)
            e == Em("file_path", k)
        IN  /\ Data(e.path_and_entity) = NewIndex("FileEntity", Data(o.path_and_entity))
            /\ Data(e.ext_and_version) = INVALID_INDEX
            /\ HashWithData_hash40(e.path_and_entity) = HashWithData_hash40(o.path_and_entity)
            /\ HashWithData_hash40(e.ext_and_version) = HashWithData_hash40(o.ext_and_version)

\* C5: Hash-with-data encoding.  After set_data(d), data() returns d and
\* hash40() is what it was; new(hash, d) has data() = d and hash40() = hash;
\* set_hash40 leaves data() as it was.
C5_HashWithDataEncoding ==
    /\ hop.op = "set_data"
          => /\ HashWithData_data(hwd) = hop.data
             /\ HashWithData_hash40(hwd) = HashWithData_hash40(hop.before)
    /\ hop.op = "new"
          => /\ HashWithData_data(hwd) = hop.data
             /\ HashWithData_hash40(hwd) = hop.hash
    /\ hop.op = "set_hash40"
          => /\ HashWithData_data(hwd) = HashWithData_data(hop.before)
             /\ HashWithData_hash40(hwd) = hop.hash

\* C6: FileDesc::reinternalize keeps the load-method tag and rewrites the
\* payload by tag: Unowned and SharedButOwned through the FileEntity map,
\* PackageSkip through the FileInfo map, Owned to INVALID (the word is
\* 0x01FFFFFF whatever the input payload), tag 0x10 unchanged; group and
\* file_data are rewritten through the FileGroup and FileData maps.
C6_FileDescRewritten ==
    Done =>
      \A k \in Places("file_desc") :
        LET o == Orig("file_desc", "FileDesc", k)
            e == Em("file_desc", k)
            kind == Tag(o.load_method)
        IN  /\ Tag(e.load_method) = kind
            /\ kind \in {0, 9}
                  => Payload(e.load_method) = NewIndex("FileEntity", Payload(o.load_method))
            /\ kind = 3
                  => Payload(e.load_method) = NewIndex("FileInfo", Payload(o.load_method))
            /\ kind = 1 => e.load_method = LoadMethodWord(1, INVALID_INDEX)
            /\ kind = 16 => Payload(e.load_method) = Payload(o.load_method)
            /\ e.group = NewIndex("FileGroup", o.group)
            /\ e.file_data = NewIndex("FileData", o.file_data)

\* a finished output whose descriptors carried an Owned payload that was not
\* INVALID, a PackageSkip whose info moved, a SharedButOwned and a tag 0x10
C6_Witness ==
    /\ Done
    /\ \E k \in Places("file_desc") :
          /\ Orig("file_desc", "FileDesc", k).load_method = LoadMethodWord(1, 66)
          /\ Em("file_desc", k).load_method = LoadMethodWord(1, INVALID_INDEX)
    /\ \E k \in Places("file_desc") :
          /\ Tag(Orig("file_desc", "FileDesc", k).load_method) = 3
          /\ Em("file_desc", k).load_method # Orig("file_desc", "FileDesc", k).load_method
          /\ Em("file_desc", k).file_data # Orig("file_desc", "FileDesc", k).file_data
    /\ \E k \in Places("file_desc") :
          Tag(Em("file_desc", k).load_method) = 9
    /\ \E k \in Places("file_desc") :
          Em("file_desc", k).load_method = LoadMethodWord(16, 3)

\* C7: A FileDesc whose load-method tag is 0x05 (Unknown) is emitted with its
\* load_method word bit-for-bit equal to the input word, whatever the low 24
\* bits are.
C7_UnknownBitForBit ==
    Done =>
      \A k \in Places("file_desc") :
        Tag(Orig("file_desc", "FileDesc", k).load_method) = 5
            => Em("file_desc", k).load_method
                 = Orig("file_desc", "FileDesc", k).load_method

\* no package resolves to a FileGroup subpackage
NoInfoGroup(t) ==
    \A k \in 1..Len(t.file_package) :
        sub_package(t, t.file_package[k]).kind # "FileGroup"

OneRecordCase(t) ==
    /\ Len(t.file_package) = 1 /\ Len(t.file_info) = 1 /\ Len(t.file_data) = 1
    /\ t.file_desc = <<[group |-> 0, file_data |-> 0, load_method |-> 0]>>

\* C8: Re-serializing a well-formed archive in which no package resolves to a
\* FileGroup subpackage completes without aborting; every reserved group is
\* emitted with the data-disposition rewrite; in the one-record case all new
\* indices are zero and the load-method word is 0x00000000.
C8_NoInfoGroupCompletes ==
    (Loaded /\ WellFormed(tables) /\ NoInfoGroup(tables))
        => /\ pc # "abort"
           /\ Done =>
                /\ \A k \in Places("file_group") : emitted.disp[k] = "data"
                /\ emitted.src.FileGroup = SerState_iter(cache, "FileGroup")
                /\ OneRecordCase(tables)
                      => /\ emitted.recs.file_desc
                               = <<[group |-> 0, file_data |-> 0, load_method |-> 0]>>
                         /\ Data(Em("file_path", 1).path_and_entity) = 0
                         /\ Data(Em("file_package", 1).path_and_group) = 0
                         /\ Em("file_package", 1).info_start = 0
                         /\ Em("file_group", 1).child_start = 0
                         /\ Em("file_info", 1) = [Orig("file_info", "FileInfo", 1)
                                EXCEPT !.path = 0, !.entity = 0, !.desc = 0]

ReservedDescs == SeqRange(SerState_iter(cache, "FileDesc"))

\* two reserved descriptors that reference the same FileData
SharingDescs ==
    {pair \in ReservedDescs \X ReservedDescs :
        /\ pair[1] < pair[2]
        /\ Table_has(tables.file_desc, pair[1])
        /\ Table_has(tables.file_desc, pair[2])
        /\ Table_at(tables.file_desc, pair[1]).file_data # INVALID_INDEX
        /\ Table_at(tables.file_desc, pair[1]).file_data
             = Table_at(tables.file_desc, pair[2]).file_data}

\* the data groups of the packages, and a FileData that two of them hold
DataGroups(t) ==
    UNION {SeqRange(FilePackage_data_group_range(t.file_package[k])) :
              k \in 1..Len(t.file_package)}

SharedChildren(t) ==
    {d \in 0..Len(t.file_data) :
        \E g1, g2 \in DataGroups(t) :
            /\ g1 # g2
            /\ Table_has(t.file_group, g1) /\ Table_has(t.file_group, g2)
            /\ d \in SeqRange(FileGroup_child_range(Table_at(t.file_group, g1)))
            /\ d \in SeqRange(FileGroup_child_range(Table_at(t.file_group, g2)))}

Once(s, v) == Cardinality({k \in 1..Len(s) : s[k] = v}) = 1

\* C9: Shared FileData.  If two reserved FileDescs reference the same FileData
\* index, or a FileData is a child of two data groups, re-serialization
\* completes, the FileData is emitted exactly once and both descriptors'
\* rewritten file_data fields equal its new index.
C9_SharedFileData ==
    (Loaded /\ WellFormed(tables)
       /\ (SharingDescs # {} \/ SharedChildren(tables) # {}))
        => /\ pc # "abort"
           /\ Done =>
                /\ \A pair \in SharingDescs :
                      LET d == Table_at(tables.file_desc, pair[1]).file_data
                      IN  /\ Once(emitted.src.FileData, d)
                          /\ Em("file_desc", NewIndex("FileDesc", pair[1]) + 1).file_data
                                = NewIndex("FileData", d)
                          /\ Em("file_desc", NewIndex("FileDesc", pair[2]) + 1).file_data
                                = NewIndex("FileData", d)
                /\ \A d \in SharedChildren(tables) : Once(emitted.src.FileData, d)

\* C10: Symlink resolution survives.  For a package with HAS_SUB_PACKAGE and
\* IS_SYM_LINK whose data group redirects to package p, the emitted package's
\* path_and_group.data is the new index of that data group, the emitted
\* group's redirection is the new index of p, and sub_package() on the
\* emitted tables resolves to the package at new(p).  A data group's
\* redirection goes through the FilePackage map when below the package
\* count, through the FileGroup map otherwise, and INVALID stays INVALID.
C10_SymLinkSurvives ==
    Done =>
      /\ \A k \in Places("file_package") :
            LET o == Orig("file_package", "FilePackage", k)
                e == Em("file_package", k)
                dg == Data(o.path_and_group)
                p == Table_at(tables.file_group, dg).redirection
            IN  (/\ HasFlag(o.flags, PKG_HAS_SUB_PACKAGE)
                 /\ HasFlag(o.flags, PKG_IS_SYM_LINK)
                 /\ Table_has(tables.file_group, dg)
                 /\ Table_has(tables.file_package, p))
                  => /\ Data(e.path_and_group) = NewIndex("FileGroup", dg)
                     /\ Em("file_group", NewIndex("FileGroup", dg) + 1).redirection
                           = NewIndex("FilePackage", p)
                     /\ sub_package(emitted.recs, e)
                           = [kind |-> "SymLink", index |-> NewIndex("FilePackage", p)]
      /\ \A k \in Places("file_group") :
            LET o == Orig("file_group", "FileGroup", k)
                e == Em("file_group", k)
            IN  emitted.disp[k] = "data"
                  => e.redirection
                       = NewIndex(OwnerType(tables, o.redirection), o.redirection)

-----------------------------------------------------------------------------
(* Sub-packages *)

\* the reserve loop over the packages has run to its end
PastPackages ==
    /\ pc \notin {"load", "load_error", "packages", "hash", "sub", "range"}
    /\ panicked_at \notin {"load", "packages"}

SubKind(k) == sub_package(tables, tables.file_package[k]).kind

\* the packages whose sub-package is an info-bearing group
GroupBearing == {k \in 1..Len(tables.file_package) : SubKind(k) = "FileGroup"}

\* C11: sub_package() is None without HAS_SUB_PACKAGE whatever the
\* redirection; with HAS_SUB_PACKAGE and IS_SYM_LINK it is the package at the
\* first data group's redirection and aborts when that redirection is INVALID;
\* with HAS_SUB_PACKAGE alone it is the group at the redirection, or None when
\* the redirection is INVALID.  Only the first data group is consulted, and
\* into_bytes collects exactly the group results, in package order.
C11_SubPackageCases ==
    Loaded =>
      /\ \A k \in 1..Len(tables.file_package) :
           LET p == tables.file_package[k]
               has == HasFlag(p.flags, PKG_HAS_SUB_PACKAGE)
               sym == HasFlag(p.flags, PKG_IS_SYM_LINK)
               sub == sub_package(tables, p)
           IN  /\ ~has => sub.kind = "None"
               /\ has /\ Table_has(tables.file_group, Data(p.path_and_group)) =>
                    LET redirection ==
                          Table_at(tables.file_group, Data(p.path_and_group)).redirection
                    IN  /\ sym /\ redirection = INVALID_INDEX => sub.kind = "panic"
                        /\ sym /\ Table_has(tables.file_package, redirection)
                             => sub = [kind |-> "SymLink", index |-> redirection]
                        /\ ~sym /\ redirection = INVALID_INDEX => sub.kind = "None"
                        /\ ~sym /\ Table_has(tables.file_group, redirection)
                             => sub = [kind |-> "FileGroup", index |-> redirection]
      /\ PastPackages =>
           /\ \A k \in 1..Len(tables.file_package) : SubKind(k) # "panic"
           /\ Len(info_groups) = Cardinality(GroupBearing)
           /\ \A k \in GroupBearing :
                info_groups[Cardinality({j \in GroupBearing : j <= k})]
                  = sub_package(tables, tables.file_package[k]).index
      /\ (pc = "abort" /\ \E k \in 1..Len(tables.file_package) : SubKind(k) = "panic")
           => panicked_at = "packages"

\* the package loop has finished over a sym link that resolves to a package,
\* a package with an info-bearing group, and the group was collected
C11_Witness ==
    /\ pc = "info_groups"
    /\ \E k \in 1..Len(tables.file_package) : SubKind(k) = "SymLink"
    /\ \E k \in 1..Len(tables.file_package) : SubKind(k) = "FileGroup"
    /\ info_groups # <<>>

\* a sym link whose data group has no redirection aborted the package loop
C11_WitnessAbort ==
    /\ panicked_at = "packages"
    /\ \E k \in 1..Len(tables.file_package) :
          /\ HasFlag(tables.file_package[k].flags, PKG_IS_SYM_LINK)
          /\ HasFlag(tables.file_package[k].flags, PKG_HAS_SUB_PACKAGE)
          /\ Table_at(tables.file_group,
                      Data(tables.file_package[k].path_and_group)).redirection
               = INVALID_INDEX

-----------------------------------------------------------------------------
(* Fan-out *)

\* the run of n indices from start, as checked_range gives it: no run reaches
\* INVALID
RunIs(range, start, n) ==
    IF start + n < INVALID_INDEX
    THEN Len(range) = n /\ \A k \in 1..n : range[k] = start + k - 1
    ELSE range = <<>>

\* the file infos the packages own, and the stream paths the folders own
PackageInfos ==
    UNION {SeqRange(FilePackage_info_range(tables.file_package[k])) :
              k \in 1..Len(tables.file_package)}

FolderPaths ==
    UNION {SeqRange(StreamFolder_stream_path_range(tables.stream_folder[k])) :
              k \in 1..Len(tables.stream_folder)}

C12_WitnessRegional ==
    /\ pc = "write_stream_folder"
    /\ Len(cache.m["FileGroup"]) = 7
    /\ Len(cache.m["FileDesc"]) = 7
    /\ Len(cache.m["StreamDesc"]) = 5

-----------------------------------------------------------------------------
(* Range preservation *)

\* the reserved run r has consecutive new indices of type T, in order
Consecutive(T, r) ==
    \A k \in 1..Len(r) :
        SerState_get(cache, T, r[k]) = SerState_get(cache, T, r[1]) + k - 1

\* the runs reserve_range has reserved keep their order: the descriptors of
\* the packages' file infos and the infos of the packages once the package
\* loop is over, the stream descriptors once the stream folders are done
RangesConsecutive ==
    /\ PastPackages /\ pc # "abort" =>
         /\ \A n \in PackageInfos :
              Consecutive("FileDesc",
                  FileInfo_descriptor_range(Table_at(tables.file_info, n)))
         /\ \A k \in 1..Len(tables.file_package) :
              Consecutive("FileInfo", FilePackage_info_range(tables.file_package[k]))
    /\ (pc = "write_stream_folder" \/ Done) =>
         \A n \in FolderPaths :
            Consecutive("StreamDesc",
                StreamPath_descriptor_range(Table_at(tables.stream_path, n)))

\* the emitted file infos whose original is localized with a run of 15
LocalizedPlaces ==
    {k \in Places("file_info") :
        LET o == Orig("file_info", "FileInfo", k)
        IN  /\ HasFlag(o.flags, INFO_IS_LOCALIZED)
            /\ Len(FileInfo_descriptor_range(o)) = 15}

\* an emitted localized file info starts a run of 15 emitted descriptors that
\* are its original descriptors, in order
LocalizedRunEmitted ==
    Done =>
      \A k \in LocalizedPlaces :
         LET o == Orig("file_info", "FileInfo", k)
             e == Em("file_info", k)
         IN  /\ e.desc + 15 <= Len(emitted.recs.file_desc)
             /\ \A j \in 0..14 : emitted.src["FileDesc"][e.desc + j + 1] = o.desc + j
             /\ \A j \in 0..14 :
                  Em("file_desc", e.desc + j + 1).load_method
                    = Table_at(tables.file_desc, o.desc + j).load_method

\* loading the output gives the localized file info a descriptor range of 15
LocalizedRunReloaded ==
    pc = "reloaded" /\ LocalizedPlaces # {} =>
      /\ reloaded.kind = "ok"
      /\ Len(reloaded.tables.file_info) = Len(emitted.recs.file_info)
      /\ \A k \in LocalizedPlaces :
           Len(FileInfo_descriptor_range(reloaded.tables.file_info[k])) = 15

\* C13: Range preservation.  Whenever reserve_range<T>(start, count) completes
\* the reserved indices get consecutive new indices in the same order, so a
\* LOCALIZED FileInfo that points to 15 consecutive FileDescs is emitted with a
\* desc start whose 15 following emitted FileDescs are those descriptors in
\* order, and descriptor_range() on the reloaded info yields 15 items.
C13_RangePreserved ==
    /\ RangesConsecutive
    /\ LocalizedRunEmitted
    /\ LocalizedRunReloaded

\* the first two parts of C13 on their own: what into_bytes reserves and emits
C13_RunsKeptInOutput == RangesConsecutive /\ LocalizedRunEmitted

\* a localized file info was emitted behind a start that moved
C13_RunEmitted ==
    /\ pc = "reloaded"
    /\ \E k \in LocalizedPlaces :
          Em("file_info", k).desc # Orig("file_info", "FileInfo", k).desc

-----------------------------------------------------------------------------
(* File entities *)

-----------------------------------------------------------------------------
(* File packages *)

\* C15: Every emitted FilePackage has info_start equal to the new index of its
\* first FileInfo, or INVALID when info_count is 0; child_start equal to the
\* new index of its first FilePackageChild, or INVALID when child_count is 0;
\* path_and_group.data() equal to the new index of its first data group;
\* counts, flags and all hashes unchanged.  Every emitted FilePackageChild has
\* data() equal to the new index of its target package, its hash unchanged.
C15_PackageRewritten ==
    Done =>
      /\ \A k \in Places("file_package") :
           LET o == Orig("file_package", "FilePackage", k)
               e == Em("file_package", k)
           IN  /\ e.info_start = IF o.info_count = 0 THEN INVALID_INDEX
                                 ELSE NewIndex("FileInfo", o.info_start)
               /\ e.child_start = IF o.child_count = 0 THEN INVALID_INDEX
                                  ELSE NewIndex("FilePackageChild", o.child_start)
               /\ Data(e.path_and_group) = NewIndex("FileGroup", Data(o.path_and_group))
               /\ e.info_count = o.info_count
               /\ e.child_count = o.child_count
               /\ e.flags = o.flags
               /\ HashWithData_hash40(e.path_and_group)
                    = HashWithData_hash40(o.path_and_group)
               /\ e.name = o.name /\ e.parent = o.parent /\ e.lifetime = o.lifetime
      /\ \A k \in Places("file_package_child") :
           LET o == Orig("file_package_child", "FilePackageChild", k)
               e == Em("file_package_child", k)
           IN  /\ Data(e) = NewIndex("FilePackage", Data(o))
               /\ HashWithData_hash40(e) = HashWithData_hash40(o)

\* the plain fields of C15 on their own: the starts, counts, flags and hashes
C15_PlainFields ==
    Done =>
      /\ \A k \in Places("file_package") :
           LET o == Orig("file_package", "FilePackage", k)
               e == Em("file_package", k)
           IN  /\ e.info_start = IF o.info_count = 0 THEN INVALID_INDEX
                                 ELSE NewIndex("FileInfo", o.info_start)
               /\ e.child_start = IF o.child_count = 0 THEN INVALID_INDEX
                                  ELSE NewIndex("FilePackageChild", o.child_start)
               /\ e.info_count = o.info_count
               /\ e.child_count = o.child_count
               /\ e.flags = o.flags
               /\ HashWithData_hash40(e.path_and_group)
                    = HashWithData_hash40(o.path_and_group)
               /\ e.name = o.name /\ e.parent = o.parent /\ e.lifetime = o.lifetime
      /\ \A k \in Places("file_package_child") :
           HashWithData_hash40(Em("file_package_child", k))
             = HashWithData_hash40(Orig("file_package_child", "FilePackageChild", k))

-----------------------------------------------------------------------------
(* Lookups *)

\* the path hash a record of a lookup's companion table reports
PathHash(T, rec) ==
    CASE T = "StreamPath" -> HashWithData_hash40(rec.path_and_desc)
      [] T = "FilePath" -> HashWithData_hash40(rec.path_and_entity)
      [] T = "FilePackage" -> HashWithData_hash40(rec.path_and_group)

\* every entry of the lookup names a record of the table with the entry's hash
Coherent(entries, table, T) ==
    \A k \in 1..Len(entries) :
        /\ Table_has(table, Data(entries[k]))
        /\ PathHash(T, Table_at(table, Data(entries[k])))
             = HashWithData_hash40(entries[k])

\* the emitted lookup has the input's entries in order, hashes unchanged and
\* data rewritten through the new-index map of T
LookupRewritten(old, new, T) ==
    /\ Len(new) = Len(old)
    /\ \A k \in 1..Len(old) :
          /\ HashWithData_hash40(new[k]) = HashWithData_hash40(old[k])
          /\ HashWithData_length(new[k]) = HashWithData_length(old[k])
          /\ Data(new[k]) = NewIndex(T, Data(old[k]))

\* C16: Lookup coherence is preserved.  Lookups are emitted in their original
\* entry order with each entry's hash unchanged and its data rewritten through
\* the companion table's new-index map, so for every (hash, idx) of an emitted
\* stream_path, file_path or file_package lookup the record at position idx of
\* the emitted companion table reports the same path hash.
C16_LookupCoherence ==
    Done =>
      /\ LookupRewritten(tables.stream_path_lookup,
                         emitted.recs.stream_path_lookup, "StreamPath")
      /\ LookupRewritten(tables.file_path_lookup.entries,
                         emitted.recs.file_path_lookup.entries, "FilePath")
      /\ LookupRewritten(tables.file_package_lookup,
                         emitted.recs.file_package_lookup, "FilePackage")
      /\ Coherent(tables.stream_path_lookup, tables.stream_path, "StreamPath")
           => Coherent(emitted.recs.stream_path_lookup,
                       emitted.recs.stream_path, "StreamPath")
      /\ Coherent(tables.file_path_lookup.entries, tables.file_path, "FilePath")
           => Coherent(emitted.recs.file_path_lookup.entries,
                       emitted.recs.file_path, "FilePath")
      /\ Coherent(tables.file_package_lookup, tables.file_package, "FilePackage")
           => Coherent(emitted.recs.file_package_lookup,
                       emitted.recs.file_package, "FilePackage")

\* an output whose three lookups were coherent in the input and whose stream
\* path moved to a new index
C16_Witness ==
    /\ Done
    /\ Coherent(tables.stream_path_lookup, tables.stream_path, "StreamPath")
    /\ Coherent(tables.file_path_lookup.entries, tables.file_path, "FilePath")
    /\ Coherent(tables.file_package_lookup, tables.file_package, "FilePackage")
    /\ Len(emitted.recs.stream_path_lookup) > 1
    /\ \E k \in 1..Len(tables.stream_path_lookup) :
          Data(emitted.recs.stream_path_lookup[k]) # Data(tables.stream_path_lookup[k])

-----------------------------------------------------------------------------
(* The bucket directory of the file path lookup *)

\* where the lookup header lies in the input, and where in the output
InputLookupOffset ==
    SectionOffset(Sections(ResourceTableHeader_cast(raw_data), 0, 0), 6)

EmittedLookupOffset ==
    Len(emitted.recs.stream_folder) * Record_size("StreamFolder")
      + Len(emitted.recs.stream_path_lookup) * Record_size("HashWithData")
      + Len(emitted.recs.stream_path) * Record_size("StreamPath")
      + Len(emitted.recs.stream_desc) * Record_size("StreamDesc")
      + Len(emitted.recs.stream_data) * Record_size("StreamData")

\* the bytes of the two counts and the directory behind them
DirectoryBytes == 8 + Len(tables.file_path_lookup.buckets) * Record_size("Bucket")

\* C17: Bucket layout is preserved verbatim.  The emitted file_path_lookup
\* header (entry count, bucket count) and bucket directory of (start, length)
\* pairs are identical to the input's, and the entries are emitted in the
\* input's bucket-major order, so the order within each bucket is unchanged.
C17_BucketLayout ==
    /\ emitted.lookup_header # <<>> =>
         /\ emitted.lookup_header = <<Len(tables.file_path_lookup.entries),
                                      Len(tables.file_path_lookup.buckets)>>
         /\ emitted.recs.file_path_lookup.buckets = tables.file_path_lookup.buckets
         /\ Slice(buffer, EmittedLookupOffset, DirectoryBytes)
              = Slice(raw_data, InputLookupOffset, DirectoryBytes)
    /\ Done =>
         /\ Len(emitted.recs.file_path_lookup.entries)
              = Len(tables.file_path_lookup.entries)
         /\ \A b \in 1..Len(tables.file_path_lookup.buckets) :
              LET bucket == tables.file_path_lookup.buckets[b]
              IN  \A j \in 1..bucket.len :
                    HashWithData_hash40(
                        emitted.recs.file_path_lookup.entries[bucket.start + j])
                      = HashWithData_hash40(
                            tables.file_path_lookup.entries[bucket.start + j])

\* an output behind a directory whose first and last bucket hold an entry and
\* which has an empty bucket between them, written behind stream tables
C17_Witness ==
    /\ Done
    /\ EmittedLookupOffset > 0
    /\ LET buckets == emitted.recs.file_path_lookup.buckets
       IN  /\ Len(buckets) >= 3
           /\ buckets[1].len = 1
           /\ buckets[Len(buckets)].len = 1
           /\ \E b \in 1..Len(buckets) : buckets[b].len = 0

-----------------------------------------------------------------------------
\* the header's locale_count and region_count bytes of the input
HeaderCounts(b) == <<U8At(b, 56), U8At(b, 57)>>

HasHeader(b) == Len(b) >= ResourceTableHeader_size

\* C18: once from_bytes has run on a buffer that holds a whole header, a
\* locale_count other than 14 or a region_count other than 5 has ended the
\* load with the InvalidData error and no table was produced; with both
\* counts right the loader went on to slice the tables, so the load is never
\* the InvalidData error.
C18_HeaderRejected ==
    (pc # "load" /\ HasHeader(raw_data)) =>
        IF HeaderCounts(raw_data) # <<LOCALE_COUNT, REGION_COUNT>>
        THEN pc = "load_error" /\ panicked_at = "" /\ tables = NoTables
        ELSE pc # "load_error"

\* a header with a wrong region_count has been rejected
C18_Witness ==
    /\ pc = "load_error"
    /\ HasHeader(raw_data)
    /\ HeaderCounts(raw_data)[1] = LOCALE_COUNT
    /\ HeaderCounts(raw_data)[2] # REGION_COUNT

\* a header with a wrong locale_count has been rejected
C18_WitnessLocale ==
    /\ pc = "load_error"
    /\ HasHeader(raw_data)
    /\ HeaderCounts(raw_data)[1] # LOCALE_COUNT

\* a header with both counts right has been sliced into non-empty tables
C18_WitnessSliced ==
    /\ pc = "packages"
    /\ HeaderCounts(raw_data) = <<LOCALE_COUNT, REGION_COUNT>>
    /\ Len(tables.file_info) > 0

-----------------------------------------------------------------------------
\* the sections in the order the layout lists them
SectionNames ==
    <<"stream_folder", "stream_path_lookup", "stream_path", "stream_desc",
      "stream_data", "lookup_counts", "bucket_directory", "file_path_lookup",
      "file_path", "file_entity", "file_package_lookup", "file_package",
      "file_group", "file_package_child", "file_info", "file_desc",
      "file_data">>

\* the bytes of one section of a table set; counts is <<lookup count, bucket
\* count>>, or empty while the pair is not written
SectionBytes(t, counts, name) ==
    CASE name = "stream_folder" -> TableBytes(t.stream_folder, "StreamFolder")
      [] name = "stream_path_lookup" ->
            TableBytes(t.stream_path_lookup, "HashWithData")
      [] name = "stream_path" -> TableBytes(t.stream_path, "StreamPath")
      [] name = "stream_desc" -> TableBytes(t.stream_desc, "StreamDesc")
      [] name = "stream_data" -> TableBytes(t.stream_data, "StreamData")
      [] name = "lookup_counts" ->
            IF counts = <<>> THEN <<>> ELSE LE32(counts[1]) \o LE32(counts[2])
      [] name = "bucket_directory" ->
            TableBytes(t.file_path_lookup.buckets, "Bucket")
      [] name = "file_path_lookup" ->
            TableBytes(t.file_path_lookup.entries, "HashWithData")
      [] name = "file_path" -> TableBytes(t.file_path, "FilePath")
      [] name = "file_entity" -> TableBytes(t.file_entity, "FileEntity")
      [] name = "file_package_lookup" ->
            TableBytes(t.file_package_lookup, "HashWithData")
      [] name = "file_package" -> TableBytes(t.file_package, "FilePackage")
      [] name = "file_group" -> TableBytes(t.file_group, "FileGroup")
      [] name = "file_package_child" ->
            TableBytes(t.file_package_child, "HashWithData")
      [] name = "file_info" -> TableBytes(t.file_info, "FileInfo")
      [] name = "file_desc" -> TableBytes(t.file_desc, "FileDesc")
      [] name = "file_data" -> TableBytes(t.file_data, "FileData")

\* the sections one behind the other, nothing between them
InOrder(t, counts) ==
    Concat([k \in 1..Len(SectionNames) |-> SectionBytes(t, counts, SectionNames[k])])

LookupCounts(t) ==
    <<Len(t.file_path_lookup.entries), Len(t.file_path_lookup.buckets)>>

\* the table lengths the header of the input announces
HeaderLengths(h) ==
    [stream_folder |-> h.stream_folder_count,
     stream_path_lookup |-> h.stream_path_count,
     stream_path |-> h.stream_path_count,
     stream_desc |-> h.stream_desc_count,
     stream_data |-> h.stream_data_count,
     file_path |-> h.file_path_count,
     file_entity |-> h.file_entity_count,
     file_package_lookup |-> h.file_package_count,
     file_package |-> h.file_package_count,
     file_group |-> h.file_info_group_count + h.file_data_group_count
                      + h.versioned_file_group_count,
     file_package_child |-> h.file_package_child_count,
     file_info |-> h.file_package_info_count + h.file_group_info_count
                     + h.versioned_file_info_count,
     file_desc |-> h.file_package_desc_count + h.file_group_info_count
                     + h.versioned_file_desc_count,
     file_data |-> h.file_package_data_count + h.file_group_info_count
                     + h.versioned_file_data_count]

\* a header announcing the lengths of the emitted tables
EmittedHeader ==
    [file_path_count |-> Len(emitted.recs.file_path),
     file_entity_count |-> Len(emitted.recs.file_entity),
     file_package_count |-> Len(emitted.recs.file_package),
     file_data_group_count |-> Len(SelectSeq(emitted.disp, LAMBDA d : d = "data")),
     file_package_child_count |-> Len(emitted.recs.file_package_child),
     file_package_info_count |-> Len(emitted.recs.file_info),
     file_package_desc_count |-> Len(emitted.recs.file_desc),
     file_package_data_count |-> Len(emitted.recs.file_data),
     file_info_group_count |-> Len(SelectSeq(emitted.disp, LAMBDA d : d = "info")),
     file_group_info_count |-> 0,
     locale_count |-> LOCALE_COUNT, region_count |-> REGION_COUNT,
     versioned_file_group_count |-> 0,
     versioned_file_info_count |-> 0,
     versioned_file_desc_count |-> 0,
     versioned_file_data_count |-> 0,
     stream_folder_count |-> Len(emitted.recs.stream_folder),
     stream_path_count |-> Len(emitted.recs.stream_path),
     stream_desc_count |-> Len(emitted.recs.stream_desc),
     stream_data_count |-> Len(emitted.recs.stream_data)]

\* what from_bytes slices has the listed order behind the header and the
\* lengths of the header counts
SlicedInOrder ==
    (Loaded /\ pc # "abort") =>
        /\ Slice(raw_data, ResourceTableHeader_size,
                 Len(raw_data) - ResourceTableHeader_size)
             = InOrder(tables, LookupCounts(tables))
        /\ LET want == HeaderLengths(ResourceTableHeader_cast(raw_data))
           IN  \A f \in DOMAIN want : Len(tables[f]) = want[f]

\* what into_bytes has written so far is the listed order of what it emitted
EmittedInOrder ==
    pc # "abort" => buffer = InOrder(emitted.recs, emitted.lookup_header)

\* the output behind a header of its own lengths is sliced into the very
\* tables that were emitted
EmittedSlicedBack ==
    Done =>
        LET r == from_bytes(ResourceTableHeader_bytes(EmittedHeader) \o buffer)
        IN  r.kind = "ok" /\ r.tables = emitted.recs

\* C19: into_bytes emits and from_bytes slices the same seventeen sections in
\* the same order with nothing between them: the input behind its header is
\* the loaded tables in that order with the lengths of the header counts
\* (three-way sums for file_group, file_info, file_desc and file_data), the
\* output buffer is the emitted tables in that order, and from_bytes slices
\* the output, given a header of its lengths, back into the emitted tables.
C19_LayoutAgreement == SlicedInOrder /\ EmittedInOrder /\ EmittedSlicedBack

\* a completed run whose input has versioned and group-info counts and whose
\* output has every section non-empty
C19_Witness ==
    /\ Done
    /\ ResourceTableHeader_cast(raw_data).versioned_file_info_count > 0
    /\ ResourceTableHeader_cast(raw_data).file_group_info_count > 0
    /\ \A k \in 1..Len(SectionNames) :
          SectionBytes(emitted.recs, emitted.lookup_header, SectionNames[k]) # <<>>

-----------------------------------------------------------------------------
\* the fields of the tables and the type each one holds
FieldTypes ==
    [stream_folder |-> "StreamFolder", stream_path |-> "StreamPath",
     stream_desc |-> "StreamDesc", stream_data |-> "StreamData",
     file_path |-> "FilePath", file_entity |-> "FileEntity",
     file_package |-> "FilePackage", file_package_child |-> "FilePackageChild",
     file_info |-> "FileInfo", file_desc |-> "FileDesc",
     file_data |-> "FileData"]

\* a second reservation phase over the same loaded tables, run to its end or
\* to its panic: the cache, info_start and the place it stopped at ("" at the end)
SecondReserve(t) ==
    LET a == PackagesLoop(t, [st |-> SerState_new, groups |-> <<>>],
                          Table_indices(t.file_package))
        b == InfoGroupsLoop(t, [st |-> a.st, info_start |-> NONE], a.groups)
        c == ReserveWholeTable(b.st, "FilePath", t.file_path)
        d == ReserveWholeTable(c, "FileEntity", t.file_entity)
        e == StreamFoldersLoop(t, d, Table_indices(t.stream_folder))
        stop(st, istart, at) == [st |-> st, info_start |-> istart, at |-> at]
    IN  IF ~a.st.ok THEN stop(a.st, NONE, "packages")
        ELSE IF ~b.st.ok THEN stop(b.st, b.info_start, "info_groups")
        ELSE IF b.info_start = NONE THEN stop(b.st, NONE, "info_start")
        ELSE IF ~c.ok THEN stop(c, b.info_start, "paths")
        ELSE IF ~d.ok THEN stop(d, b.info_start, "entities")
        ELSE IF ~e.ok THEN stop(e, b.info_start, "stream_folders")
        ELSE stop(e, b.info_start, "")

\* the tables a second emit phase writes from a finished reservation
SecondEmitRecs(t, r) ==
    LET npk == Len(t.file_package)
        tab(f) == WriteTableRecs(t[f], SerState_iter(r.st, FieldTypes[f]),
                                 FieldTypes[f], r.st, npk)
        groups == SerState_iter(r.st, "FileGroup")
    IN  [stream_folder |-> tab("stream_folder"),
         stream_path_lookup |-> WriteLookupRecs(t.stream_path_lookup, r.st, "StreamPath"),
         stream_path |-> tab("stream_path"),
         stream_desc |-> tab("stream_desc"),
         stream_data |-> tab("stream_data"),
         file_path_lookup |->
            [buckets |-> t.file_path_lookup.buckets,
             entries |-> WriteLookupRecs(t.file_path_lookup.entries, r.st, "FilePath")],
         file_path |-> tab("file_path"),
         file_entity |-> tab("file_entity"),
         file_package_lookup |-> WriteLookupRecs(t.file_package_lookup, r.st, "FilePackage"),
         file_package |-> tab("file_package"),
         file_group |->
            WriteTableRecs(t.file_group, TakeWhileBelow(groups, r.info_start),
                           "FileGroup_data", r.st, npk)
              \o WriteTableRecs(t.file_group, SkipWhileBelow(groups, r.info_start),
                                "FileGroup_info", r.st, npk),
         file_package_child |-> tab("file_package_child"),
         file_info |-> tab("file_info"),
         file_desc |-> tab("file_desc"),
         file_data |-> tab("file_data")]

\* the write a second emit phase panics in ("" when it ends)
SecondEmitStop(t, r) ==
    LET npk == Len(t.file_package)
        ok(f) == WriteTableOk(t[f], SerState_iter(r.st, FieldTypes[f]),
                              FieldTypes[f], r.st, npk)
        groups == SerState_iter(r.st, "FileGroup")
        writes ==
          << <<"write_stream_folder", ok("stream_folder")>>,
             <<"write_stream_path_lookup",
               WriteLookupOk(t.stream_path_lookup, r.st, "StreamPath")>>,
             <<"write_stream_path", ok("stream_path")>>,
             <<"write_stream_desc", ok("stream_desc")>>,
             <<"write_stream_data", ok("stream_data")>>,
             <<"write_file_path_lookup",
               WriteLookupOk(t.file_path_lookup.entries, r.st, "FilePath")>>,
             <<"write_file_path", ok("file_path")>>,
             <<"write_file_entity", ok("file_entity")>>,
             <<"write_file_package_lookup",
               WriteLookupOk(t.file_package_lookup, r.st, "FilePackage")>>,
             <<"write_file_package", ok("file_package")>>,
             <<"write_data_groups",
               WriteTableOk(t.file_group, TakeWhileBelow(groups, r.info_start),
                            "FileGroup_data", r.st, npk)>>,
             <<"write_info_groups",
               WriteTableOk(t.file_group, SkipWhileBelow(groups, r.info_start),
                            "FileGroup_info", r.st, npk)>>,
             <<"write_file_package_child", ok("file_package_child")>>,
             <<"write_file_info", ok("file_info")>>,
             <<"write_file_desc", ok("file_desc")>>,
             <<"write_file_data", ok("file_data")>> >>
        bad == {k \in 1..Len(writes) : ~writes[k][2]}
    IN  IF bad = {} THEN ""
        ELSE writes[CHOOSE k \in bad : \A j \in bad : k <= j][1]

\* where a second re-serialization of the loaded tables aborts ("" if it ends)
SecondStop(t) ==
    LET r == SecondReserve(t)
    IN  IF r.at # "" THEN r.at ELSE SecondEmitStop(t, r)

\* a second re-serialization of the loaded tables ends as this one did: with
\* the same bytes, or with a panic at the same place
SameOutcome ==
    /\ pc = "done" =>
          LET r == SecondReserve(tables)
          IN  /\ SecondStop(tables) = ""
              /\ r.st = cache
              /\ buffer = InOrder(SecondEmitRecs(tables, r), LookupCounts(tables))
    /\ (pc = "abort" /\ panicked_at # "load") =>
          SecondStop(tables) = panicked_at

\* the new index of a reserved index is the number of reservations made for
\* its type before its own, and the output holds the records in that order
IndexIsRank ==
    \A T \in Types :
        /\ \A k \in 1..Len(cache.m[T]) :
              SerState_get(cache, T, cache.m[T][k]) = k - 1
        /\ Done => emitted.src[T] = cache.m[T]

\* indices tried as one more reservation
MoreIndices == 0..2 \cup {7, INVALID_INDEX}

\* the caches one more reservation of index i for type U can leave
OneMore(U, i) ==
    {SerState_reserve(cache, U, i), SerState_try_reserve(cache, U, i),
     SerState_reserve_range(cache, U, i, 0),
     SerState_reserve_range(cache, U, i, 2)}

\* one more reservation, for whatever type, moves no index reserved before it
\* and touches no type but its own
OwnTypeOnly ==
    \A U \in Types : \A i \in MoreIndices : \A st \in OneMore(U, i) :
        \A T \in Types :
            /\ T # U => st.m[T] = cache.m[T]
            /\ \A k \in 1..Len(cache.m[T]) :
                  SerState_get(st, T, cache.m[T][k]) = k - 1

C20_WitnessAbort ==
    /\ pc = "abort"
    /\ panicked_at \notin {"load", "packages", "info_groups", "info_start",
                           "paths", "entities", "stream_folders"}

-----------------------------------------------------------------------------
\* the load-method tags From<FileLoadMethod> knows
PermittedTags == {0, 1, 3, 5, 9, 16}

LoadMethodTag(word) == word \div B24

\* a reserved FileDesc of the loaded tables carries a tag that is not permitted
CorruptTagReserved ==
    \E k \in 1..Len(cache.m["FileDesc"]) :
        /\ Table_has(tables.file_desc, cache.m["FileDesc"][k])
        /\ LoadMethodTag(Table_at(tables.file_desc, cache.m["FileDesc"][k]).load_method)
             \notin PermittedTags

\* C21: when a reserved FileDesc carries a load-method tag outside
\* {0x00, 0x01, 0x03, 0x05, 0x09, 0x10}, into_bytes never gets past the
\* write of the file_desc table and so returns no output; every descriptor
\* that is emitted carries a permitted tag, the one it was loaded with.
C21_CorruptTagFatal ==
    /\ (CorruptTagReserved /\ Loaded) =>
          pc \notin {"write_file_data", "done", "reloaded"}
    /\ \A k \in Places("file_desc") :
          /\ LoadMethodTag(Em("file_desc", k).load_method) \in PermittedTags
          /\ LoadMethodTag(Em("file_desc", k).load_method)
               = LoadMethodTag(Orig("file_desc", "FileDesc", k).load_method)

\* the run was aborted by the conversion of a descriptor with a corrupt tag
C21_Witness ==
    /\ pc = "abort"
    /\ panicked_at = "write_file_desc"
    /\ CorruptTagReserved
    /\ buffer # <<>>

-----------------------------------------------------------------------------
\* the table of each type
TypeField ==
    [T \in Types |->
        CASE T = "StreamFolder" -> "stream_folder"
          [] T = "StreamPath" -> "stream_path"
          [] T = "StreamDesc" -> "stream_desc"
          [] T = "StreamData" -> "stream_data"
          [] T = "FilePath" -> "file_path"
          [] T = "FileEntity" -> "file_entity"
          [] T = "FilePackage" -> "file_package"
          [] T = "FileGroup" -> "file_group"
          [] T = "FilePackageChild" -> "file_package_child"
          [] T = "FileInfo" -> "file_info"
          [] T = "FileDesc" -> "file_desc"
          [] T = "FileData" -> "file_data"]

\* the table of type T has been written in full
TableWritten(T) ==
    \/ Done
    \/ /\ emitted.src[T] # <<>>
       /\ T = "FileGroup" =>
             pc # "write_info_groups" /\ panicked_at # "write_info_groups"

\* the rewrite write_table applies at position k of the emitted table of T
RewriteAt(T, k) ==
    IF T # "FileGroup" THEN T
    ELSE IF emitted.disp[k] = "data" THEN "FileGroup_data" ELSE "FileGroup_info"

\* C22: for every table type T that has been written and every reserved
\* original index i, the record at position get<T>(i) of the emitted table is
\* the rewritten copy of original record i; the emitted table has as many
\* records as indices were reserved for T, each reserved index stands behind
\* exactly one of them, and no unreserved record is emitted.
C22_EmissionOrder ==
    \A T \in Types :
        TableWritten(T) =>
            LET out == emitted.recs[TypeField[T]]
                orig == tables[TypeField[T]]
            IN  /\ Len(out) = Len(cache.m[T])
                /\ Len(emitted.src[T]) = Len(out)
                /\ \A i \in SeqRange(cache.m[T]) :
                      /\ Cardinality({k \in 1..Len(out) : emitted.src[T][k] = i}) = 1
                      /\ emitted.src[T][SerState_get(cache, T, i) + 1] = i
                      /\ out[SerState_get(cache, T, i) + 1]
                           = Reinternalize(RewriteAt(T, SerState_get(cache, T, i) + 1),
                                           Table_at(orig, i), cache,
                                           Len(tables.file_package))
                /\ \A k \in 1..Len(out) : Reserved(cache, T, emitted.src[T][k])

\* a completed run that emitted a table in an order other than the original
\* one and left a record of another table out
C22_Witness ==
    /\ Done
    /\ \E T \in Types : \E k \in 1..Len(emitted.src[T]) : emitted.src[T][k] # k - 1
    /\ \E T \in Types :
          /\ emitted.src[T] # <<>>
          /\ Len(emitted.recs[TypeField[T]]) < Len(tables[TypeField[T]])

-----------------------------------------------------------------------------
\* indices and counts the reservation calls are tried with
TriedIndices == 0..3 \cup {7, INVALID_INDEX}

TriedCounts == 0..2

\* C23: on every cache the reservation phase builds: reserve and
\* reserve_range panic when an index they insert is reserved for the type
\* already; try_reserve returns true and appends a new index, and returns
\* false and changes nothing for a reserved one; reserve, try_reserve and get
\* of INVALID change nothing and return INVALID, false and INVALID;
\* reserve_range(INVALID, 0) returns INVALID and changes nothing, and
\* reserve_range(INVALID, n) with n > 0 panics.
C23_ReservationSemantics ==
    cache.ok =>
    \A T \in Types :
        /\ \A i \in TriedIndices \ {INVALID_INDEX} :
              /\ Reserved(cache, T, i) =>
                    /\ ~SerState_reserve(cache, T, i).ok
                    /\ SerState_reserve_returns(cache, T, i) = PANIC
                    /\ ~TryReserveInserts(cache, T, i)
                    /\ SerState_try_reserve(cache, T, i) = cache
              /\ ~Reserved(cache, T, i) =>
                    /\ TryReserveInserts(cache, T, i)
                    /\ SerState_try_reserve(cache, T, i)
                         = [cache EXCEPT !.m[T] = Append(@, i)]
              /\ \A n \in TriedCounts :
                    (\E j \in SeqRange(checked_range(i, n)) : Reserved(cache, T, j)) =>
                        /\ ~SerState_reserve_range(cache, T, i, n).ok
                        /\ SerState_reserve_range_returns(cache, T, i, n) = PANIC
        /\ SerState_reserve(cache, T, INVALID_INDEX) = cache
        /\ SerState_reserve_returns(cache, T, INVALID_INDEX) = INVALID_INDEX
        /\ ~TryReserveInserts(cache, T, INVALID_INDEX)
        /\ SerState_try_reserve(cache, T, INVALID_INDEX) = cache
        /\ SerState_get(cache, T, INVALID_INDEX) = INVALID_INDEX
        /\ SerState_reserve_range(cache, T, INVALID_INDEX, 0) = cache
        /\ SerState_reserve_range_returns(cache, T, INVALID_INDEX, 0) = INVALID_INDEX
        /\ \A n \in TriedCounts \ {0} :
              /\ ~SerState_reserve_range(cache, T, INVALID_INDEX, n).ok
              /\ SerState_reserve_range_returns(cache, T, INVALID_INDEX, n) = PANIC

\* a cache on which every case happens: a type with a reserved and an
\* unreserved tried index, and a range that runs into a reserved index
C23_Witness ==
    /\ cache.ok
    /\ \E T \in Types :
          /\ Reserved(cache, T, 1)
          /\ ~Reserved(cache, T, 0)
          /\ ~Reserved(cache, T, 7)
          /\ \E j \in SeqRange(checked_range(0, 2)) : Reserved(cache, T, j)

\* a run that a reservation of a reserved index has aborted
C23_WitnessAbort ==
    /\ pc = "abort"
    /\ ~cache.ok

-----------------------------------------------------------------------------
\* the places of into_bytes in which it writes
WritePlaces ==
    {"write_stream_folder", "write_stream_path_lookup", "write_stream_path",
     "write_stream_desc", "write_stream_data", "write_lookup_header",
     "write_file_path_lookup", "write_file_path", "write_file_entity",
     "write_file_package_lookup", "write_file_package", "write_data_groups",
     "write_info_groups", "write_file_package_child", "write_file_info",
     "write_file_desc", "write_file_data"}

\* the index new stands for old in the final map of type T: old was reserved
\* (or is INVALID) and new is what get<T> gives for it now
Resolved(T, old, new) ==
    /\ old = INVALID_INDEX \/ Reserved(cache, T, old)
    /\ new = SerState_get(cache, T, old)
    /\ new # PANIC

\* the indices emitted records and lookup entries got through state.get
EmittedResolved ==
    /\ \A k \in Places("file_desc") :
          LET o == Orig("file_desc", "FileDesc", k)
              e == Em("file_desc", k)
          IN  /\ Resolved("FileGroup", o.group, e.group)
              /\ Resolved("FileData", o.file_data, e.file_data)
    /\ \A k \in Places("file_entity") :
          LET o == Orig("file_entity", "FileEntity", k)
              e == Em("file_entity", k)
          IN  /\ Resolved("FileInfo", o.info, e.info)
              /\ Resolved(IF o.package_or_group >= Len(tables.file_package)
                          THEN "FileGroup" ELSE "FilePackage",
                          o.package_or_group, e.package_or_group)
    /\ \A k \in Places("file_group") :
          LET o == Orig("file_group", "FileGroup", k)
              e == Em("file_group", k)
          IN  IF emitted.disp[k] = "data"
              THEN Resolved("FileData", o.child_start, e.child_start)
              ELSE /\ Resolved("FileInfo", o.child_start, e.child_start)
                   /\ Resolved("FileGroup", o.redirection, e.redirection)
    /\ \A k \in Places("stream_path_lookup") :
          Resolved("StreamPath", Data(tables.stream_path_lookup[k]),
                   Data(Em("stream_path_lookup", k)))
    /\ \A k \in Places("file_package_lookup") :
          Resolved("FilePackage", Data(tables.file_package_lookup[k]),
                   Data(Em("file_package_lookup", k)))
    /\ \A k \in 1..Len(emitted.recs.file_path_lookup.entries) :
          Resolved("FilePath", Data(tables.file_path_lookup.entries[k]),
                   Data(emitted.recs.file_path_lookup.entries[k]))

\* a step that reserves writes nothing and follows no write; a step that
\* writes leaves the map alone
PhasesApart ==
    /\ cache' # cache =>
          /\ buffer = <<>> /\ buffer' = <<>>
          /\ emitted = EmittedNone /\ emitted' = EmittedNone
          /\ pc \notin WritePlaces
    /\ (buffer' # buffer \/ emitted' # emitted) =>
          /\ cache' = cache
          /\ cache.ok
          /\ pc \in WritePlaces
    /\ pc \in WritePlaces => cache' = cache

\* C24: in every run of into_bytes all reservations come before the first
\* write and none after it, so the emit phase reads one final map; every
\* index an emitted record or lookup entry got through get was reserved and
\* is the value of that final map, a write that meets an unreserved index
\* having aborted the run instead.
C24_TwoPhases == [](EmittedResolved) /\ [][PhasesApart]_vars

\* the emit phase has written records whose indices differ from the original
\* ones
C24_Witness ==
    /\ Done
    /\ \E k \in Places("file_desc") :
          Em("file_desc", k).file_data # Orig("file_desc", "FileDesc", k).file_data

\* a write met an index that was never reserved and aborted the run
C24_WitnessAbort ==
    /\ pc = "abort"
    /\ panicked_at \in WritePlaces
    /\ ~CorruptTagReserved

-----------------------------------------------------------------------------
\* the groups the packages reserve as their data groups
PackageDataGroups ==
    UNION {SeqRange(FilePackage_data_group_range(tables.file_package[k])) :
              k \in 1..Len(tables.file_package)}

\* the reserved groups that the info_groups loop reserved, in its order
ReservedInfoGroups ==
    SelectSeq(cache.m["FileGroup"], LAMBDA g : g \notin PackageDataGroups)

\* the reservation phase is over
ReservationOver == pc \in WritePlaces \cup {"done", "reloaded"}

\* every info-bearing group is reserved once, behind all data groups, and
\* info_start is the first of them
InfoGroupsBehind ==
    (Loaded /\ pc \notin {"packages", "info_groups", "abort"}) =>
        LET groups == cache.m["FileGroup"]
        IN  /\ \A j, k \in 1..Len(groups) : groups[j] = groups[k] => j = k
            /\ \A j, k \in 1..Len(groups) :
                  (groups[j] \in PackageDataGroups /\ groups[k] \notin PackageDataGroups)
                      => j < k
            /\ SeqRange(info_groups) \ PackageDataGroups = SeqRange(ReservedInfoGroups)
            /\ pc # "info_start" =>
                  /\ ReservedInfoGroups # <<>>
                  /\ info_start = ReservedInfoGroups[1]

\* every reserved group is written once, in reservation order
GroupsWrittenOnce ==
    (ReservationOver /\ TableWritten("FileGroup")) =>
        emitted.src["FileGroup"] = cache.m["FileGroup"]

\* every written group got the rewrite of the role it was reserved in
GroupsSplitByRole ==
    \A k \in 1..Len(emitted.src["FileGroup"]) :
        emitted.disp[k] =
            IF emitted.src["FileGroup"][k] \in PackageDataGroups THEN "data"
            ELSE "info"

-----------------------------------------------------------------------------
\* start + count of the last call, not wrapped: <<high part, low 16 bits>>
RangeSum ==
    LET lo == rcall.start[2] + rcall.count[2]
    IN  U32(rcall.start[1] + rcall.count[1] + (lo \div B16), lo % B16)

\* the sum is below INVALID (a sum that does not fit 32 bits is not)
SumBelowInvalid == U32_lt(RangeSum, INVALID_U32)

RangeEmpty(r) == ~U32_lt(r.start, r.end)

RangeContains(r, v) == ~U32_lt(v, r.start) /\ U32_lt(v, r.end)

\* C26: checked_range(start, count) returns start..start+count when
\* start + count is below INVALID and the empty range otherwise, for all
\* 32-bit start and count, those whose sum exceeds 32 bits included; no
\* returned range contains INVALID.
C26_CheckedRange ==
    rcall.out.kind # "none" =>
        /\ rcall.out.kind = "range"
        /\ IF SumBelowInvalid
           THEN rcall.out.start = rcall.start /\ rcall.out.end = RangeSum
           ELSE RangeEmpty(rcall.out)
        /\ ~RangeContains(rcall.out, INVALID_U32)

\* the same for every call that returns: what a build without overflow checks
\* does, and any build while the sum fits 32 bits
C26_WhenItReturns ==
    rcall.out.kind = "range" =>
        /\ IF SumBelowInvalid
           THEN rcall.out.start = rcall.start /\ rcall.out.end = RangeSum
           ELSE RangeEmpty(rcall.out)
        /\ ~RangeContains(rcall.out, INVALID_U32)
        /\ rcall.start = INVALID_U32 /\ rcall.count = ZERO_U32
              => rcall.out.start = ZERO_U32 /\ rcall.out.end = ZERO_U32

\* the model's checked_range over small integers agrees with the 32-bit one
C26_SmallAgrees ==
    (rcall.out.kind = "range" /\ rcall.start[1] = 0 /\ rcall.count[1] = 0
       /\ rcall.start[2] < 4 /\ rcall.count[2] < 4) =>
        checked_range(rcall.start[2], rcall.count[2])
            = [k \in 1..(rcall.out.end[2] - rcall.out.start[2]) |->
                  rcall.out.start[2] + k - 1]

\* a call whose sum does not fit 32 bits has panicked
C26_WitnessPanic ==
    /\ rcall.out.kind = "panic"
    /\ rcall.start = U32(65535, 65535)
    /\ rcall.count = U32(0, 1)

-----------------------------------------------------------------------------
\* later calls tried on a cache: the operation, its type and its arguments
LaterCalls ==
    [op : {"reserve", "try_reserve", "reserve_range"},
     T : {"FileData", "FileInfo"}, index : {0, 7}, count : {2}]

LaterCall(st, c) ==
    CASE c.op = "reserve" -> SerState_reserve(st, c.T, c.index)
      [] c.op = "try_reserve" -> SerState_try_reserve(st, c.T, c.index)
      [] c.op = "reserve_range" ->
             SerState_reserve_range(st, c.T, c.index, c.count)

\* the places of the reservation phase
ReservePlaces ==
    {"packages", "info_groups", "info_start", "paths", "entities",
     "stream_folders"}

\* every reserved index is in its set once, and its new index is the number
\* of indices that entered the set before it
NewIndexIsCount ==
    \A T \in Types : \A k \in 1..Len(cache.m[T]) :
        /\ \A j \in 1..Len(cache.m[T]) : cache.m[T][j] = cache.m[T][k] => j = k
        /\ SerState_get(cache, T, cache.m[T][k])
             = Cardinality({cache.m[T][j] : j \in 1..(k - 1)})

\* two later calls in a row, whatever they are, leave every reserved index
\* its new index, and leave the set of every type they were not made for
AfterTwoCalls ==
    (cache.ok /\ pc \in ReservePlaces) =>
        \A c1 \in LaterCalls : \A c2 \in LaterCalls :
            LET st == LaterCall(LaterCall(cache, c1), c2)
            IN  \A T \in Types :
                   /\ T \notin {c1.T, c2.T} => st.m[T] = cache.m[T]
                   /\ \A k \in 1..Len(cache.m[T]) :
                         SerState_get(st, T, cache.m[T][k]) = k - 1

\* a step of the program leaves every reserved index its new index: each set
\* only grows at its end
StableStep ==
    \A T \in Types :
        /\ Len(cache.m[T]) <= Len(cache'.m[T])
        /\ \A k \in 1..Len(cache.m[T]) :
              SerState_get(cache', T, cache.m[T][k])
                  = SerState_get(cache, T, cache.m[T][k])

\* C27: once an original index i of type T is reserved, get<T>(i) returns
\* the same value after any later sequence of reserve, try_reserve and
\* reserve_range calls on any type; the value is the number of distinct
\* indices reserved for T before i, and reservations for one type never
\* change the set of another type.
C27_NewIndexStability ==
    /\ [](NewIndexIsCount /\ AfterTwoCalls)
    /\ [][StableStep]_vars

\* the reservation went on, for more than one type, after FileData indices
\* had been reserved out of their original order
C27_Witness ==
    /\ pc = "entities"
    /\ cache.ok
    /\ \E k \in 1..Len(cache.m["FileData"]) : cache.m["FileData"][k] # k - 1
    /\ cache.m["FileInfo"] # <<>>
    /\ cache.m["FilePath"] # <<>>

-----------------------------------------------------------------------------
\* the types into_bytes reserves once per record of their table, in a loop
\* over the table
WholeTableTypes == {"FilePackage", "FilePath", "FileEntity", "StreamFolder"}

\* C28: whenever re-serialization completes, every FilePackage, FilePath,
\* FileEntity and StreamFolder has its original index as its new index, and
\* these four tables are emitted with their original record counts, each
\* record at its original place.
C28_IdentityRenumbering ==
    Done =>
        \A T \in WholeTableTypes :
            LET table == tables[TypeField[T]]
            IN  /\ SerState_iter(cache, T) = Table_indices(table)
                /\ \A i \in 0..(Len(table) - 1) : SerState_get(cache, T, i) = i
                /\ emitted.src[T] = Table_indices(table)
                /\ Len(emitted.recs[TypeField[T]]) = Len(table)

\* a completed run over package, path and entity tables of more than one
\* record, in which another type was not renumbered by identity
C28_Witness ==
    /\ Done
    /\ \A T \in WholeTableTypes \ {"StreamFolder"} :
          Len(tables[TypeField[T]]) >= 2
    /\ \E T \in Types \ WholeTableTypes :
          \E k \in 1..Len(cache.m[T]) : cache.m[T][k] # k - 1

\* a completed run over more than one stream folder, whose stream paths were
\* not renumbered by identity
C28_WitnessFolders ==
    /\ Done
    /\ Len(tables.stream_folder) >= 2
    /\ \E k \in 1..Len(cache.m["StreamPath"]) : cache.m["StreamPath"][k] # k - 1

-----------------------------------------------------------------------------
\* the emitted FileData records from position start on, n of them, are the
\* original records first .. first + n - 1, in that order
ChildrenAt(start, first, n) ==
    \A j \in 1..n :
        /\ start + j <= Len(emitted.src["FileData"])
        /\ emitted.src["FileData"][start + j] = first + j - 1
        /\ Em("file_data", start + j) = Table_at(tables.file_data, first + j - 1)

\* an emitted data group some of whose children an earlier data group had
\* reserved before it
SharesChildren(k) ==
    \E j \in 1..(k - 1) :
        /\ emitted.src["FileGroup"][j] \in PackageDataGroups
        /\ SeqRange(FileGroup_child_range(Orig("file_group", "FileGroup", j)))
             \cap SeqRange(FileGroup_child_range(Orig("file_group", "FileGroup", k)))
               # {}

\* C29: for every emitted data group with child_count n > 0, the emitted
\* FileData records at positions child_start .. child_start + n are exactly
\* the group's original children in their original order, also when an
\* earlier data group with an overlapping child range reserved some of them
\* first.
C29_ChildRangesValid ==
    Done =>
        \A k \in Places("file_group") :
            (emitted.src["FileGroup"][k] \in PackageDataGroups
               /\ Em("file_group", k).child_count > 0) =>
                ChildrenAt(Em("file_group", k).child_start,
                           Orig("file_group", "FileGroup", k).child_start,
                           Em("file_group", k).child_count)

\* the same for the data groups that share no child with an earlier one
C29_ApartRangesValid ==
    Done =>
        \A k \in Places("file_group") :
            (emitted.src["FileGroup"][k] \in PackageDataGroups
               /\ Em("file_group", k).child_count > 0 /\ ~SharesChildren(k)) =>
                ChildrenAt(Em("file_group", k).child_start,
                           Orig("file_group", "FileGroup", k).child_start,
                           Em("file_group", k).child_count)

\* a completed run with a data group that shares children with an earlier one
C29_WitnessOverlap ==
    /\ Done
    /\ \E k \in Places("file_group") :
          /\ emitted.src["FileGroup"][k] \in PackageDataGroups
          /\ Em("file_group", k).child_count > 0
          /\ SharesChildren(k)

-----------------------------------------------------------------------------
\* the sections in the order quick_serialize appends them
QuickNames ==
    <<"stream_folder", "stream_path_lookup", "stream_path", "stream_desc",
      "file_path_lookup", "lookup_counts", "bucket_directory", "file_path",
      "file_entity", "file_package_lookup", "file_package", "file_group",
      "file_package_child", "file_info", "file_desc", "file_data">>

QuickSerialized == pc = "quick_serialized"

\* C30: the output of quick_serialize holds every section that from_bytes
\* slices, stream_data included, in the order from_bytes reads them (the
\* file_path_lookup count, bucket count and bucket directory before the
\* file_path_lookup entries), with every index unchanged.
C30_QuickLoaderLayout ==
    QuickSerialized => buffer = InOrder(tables, LookupCounts(tables))

\* the sections quick_serialize does append are the loaded ones byte for
\* byte, every index unchanged
C30_QuickVerbatim ==
    QuickSerialized =>
        buffer = Concat([k \in 1..Len(QuickNames) |->
                     SectionBytes(tables, LookupCounts(tables), QuickNames[k])])

\* the output falls short of the loader's layout by the stream_data section
C30_QuickLength ==
    QuickSerialized =>
        Len(buffer) + Len(SectionBytes(tables, <<>>, "stream_data"))
            = Len(InOrder(tables, LookupCounts(tables)))

\* quick_serialize has run on tables with stream data and a file path lookup
C30_WitnessQuick ==
    /\ QuickSerialized
    /\ tables.stream_data # <<>>
    /\ tables.file_path_lookup.entries # <<>>
    /\ buffer # <<>>

====
